---------------------------- MODULE Spec2Model ----------------------------
(***************************************************************************)
(* Model of the epd7in5 e-paper driver (package main, type Epd) and of its *)
(* pixel encoder (getBuffer, rotateImage90, quantizeImage).                *)
(*                                                                         *)
(* The panel geometry is scaled: the source has EPD_WIDTH = 800 = 8 * 100  *)
(* and EPD_HEIGHT = 480; the model keeps the width a multiple of 8         *)
(* (EPD_WIDTH = 8 * WidthOctets) and the height a small number, so that    *)
(* every pixel loop and every data frame of Clear and Display is executed  *)
(* step by step.  Colours are kept at full width: a colour is the 4-tuple  *)
(* of 16-bit alpha-premultiplied channels that Color.RGBA() returns.       *)
(***************************************************************************)
EXTENDS Integers, Sequences, FiniteSets, TLC

\* ------------------------------------------------------------------------
\* Bounds (scaled panel geometry)
\* ------------------------------------------------------------------------
WidthOctets == 1
EPD_HEIGHT == 2
EPD_WIDTH == 8 * WidthOctets

\* the geometry of the panel itself (EPD_WIDTH and EPD_HEIGHT of the source)
PanelWidth == 800
PanelHeight == 480

\* ------------------------------------------------------------------------
\* Command codes (only those the driver sends)
\* ------------------------------------------------------------------------
PANEL_SETTING == 0
POWER_SETTING == 1
POWER_OFF == 2
POWER_OFF_SEQUENCE_SETTING == 3
POWER_ON == 4
POWER_ON_MEASURE == 5
BOOSTER_SOFT_START == 6
DEEP_SLEEP == 7
DATA_START_TRANSMISSION_1 == 16
DISPLAY_REFRESH == 18
PLL_CONTROL == 48
VCOM_AND_DATA_INTERVAL_SETTING == 80
TCON_SETTING == 96
TCON_RESOLUTION == 97
AUTO_MEASUREMENT_VCOM == 128
VCM_DC_SETTING == 130

\* ------------------------------------------------------------------------
\* Colours.  color.RGBA{R,G,B,A}.RGBA() returns each 8-bit channel c as the
\* 16-bit value c | c<<8 = c * 257.
\* ------------------------------------------------------------------------
RGBA8(r, g, b, a) == <<r * 257, g * 257, b * 257, a * 257>>

ColorBlack == RGBA8(0, 0, 0, 255)
ColorWhite == RGBA8(255, 255, 255, 255)
ColorYellow == RGBA8(255, 255, 0, 255)
ColorRed == RGBA8(255, 0, 0, 255)
ColorBlue == RGBA8(0, 0, 255, 255)
ColorGreen == RGBA8(0, 255, 0, 255)

ColorPalette == <<ColorBlack, ColorWhite, ColorYellow, ColorRed, ColorBlue, ColorGreen>>

\* a code table in which blue and green share a code
ColorPaletteBinaryRepeated == <<0, 1, 2, 3, 5, 5>>

\* a code table that numbers the palette entries
ColorPaletteBinarySequential == <<0, 1, 2, 3, 4, 5>>

ColorPaletteBinary == <<0, 1, 2, 3, 5, 6>>

\* color.RGBAModel.Convert, as used by (*image.RGBA).Set: every 16-bit
\* channel is cut to its high 8 bits; read back through RGBA() the stored
\* channel c8 is c8 * 257.
RGBAModelConvert(c) == [k \in 1..4 |-> (c[k] \div 256) * 257]

\* sqDiff(x, y uint32): d := x - y; return (d * d) >> 2.  The subtraction
\* and the product wrap modulo 2^32; for 16-bit x, y the wrapped product is
\* |x - y|^2 < 2^32.  With |x - y| = 2q + r the shifted square is q*q + q*r,
\* which is computed here without leaving 31 bits.
sqDiff(x, y) ==
  LET k == IF x >= y THEN x - y ELSE y - x
      q == k \div 2
      r == k % 2
  IN  q * q + q * r

\* A uint32 as the pair <<high 16 bits, low 16 bits>>.
U32Max == <<65535, 65535>>

U32Sum4(t1, t2, t3, t4) ==
  LET lo == (t1 % 65536) + (t2 % 65536) + (t3 % 65536) + (t4 % 65536)
      hi == (t1 \div 65536) + (t2 \div 65536) + (t3 \div 65536) + (t4 \div 65536)
            + (lo \div 65536)
  IN  <<hi % 65536, lo % 65536>>

\* a comparison that lets a later palette entry of equal distance win
U32LessOrEqual(a, b) == a[1] < b[1] \/ (a[1] = b[1] /\ a[2] <= b[2])

U32Less(a, b) == a[1] < b[1] \/ (a[1] = b[1] /\ a[2] < b[2])

\* color.Palette.Index: the first palette entry with the smallest sum of
\* shifted squared channel differences (0-based index).
\* Palette.Index returning the best entry so far, not i, on an exact match
RECURSIVE IndexLoopStale(_, _, _, _, _)
IndexLoopStale(p, c, i, ret, bestSum) ==
  IF i >= Len(p) THEN ret
  ELSE LET v == p[i + 1]
           sum == U32Sum4(sqDiff(c[1], v[1]), sqDiff(c[2], v[2]),
                          sqDiff(c[3], v[3]), sqDiff(c[4], v[4]))
       IN  IF U32Less(sum, bestSum)
           THEN IF sum = <<0, 0>> THEN ret
                ELSE IndexLoopStale(p, c, i + 1, i, sum)
           ELSE IndexLoopStale(p, c, i + 1, ret, bestSum)

RECURSIVE IndexLoop(_, _, _, _, _)
IndexLoop(p, c, i, ret, bestSum) ==
  IF i >= Len(p) THEN ret
  ELSE LET v == p[i + 1]
           sum == U32Sum4(sqDiff(c[1], v[1]), sqDiff(c[2], v[2]),
                          sqDiff(c[3], v[3]), sqDiff(c[4], v[4]))
       IN  IF U32Less(sum, bestSum)
           THEN IF sum = <<0, 0>> THEN i
                ELSE IndexLoop(p, c, i + 1, i, sum)
           ELSE IndexLoop(p, c, i + 1, ret, bestSum)

PaletteIndex(p, c) == IndexLoop(p, c, 0, 0, U32Max)

\* color.Palette.Convert
PaletteConvert(p, c) == p[PaletteIndex(p, c) + 1]

\* ------------------------------------------------------------------------
\* Images: bounds (Min point and size) and the pixels in row-major order.
\* ------------------------------------------------------------------------
InRect(img, x, y) ==
  /\ img.minX <= x /\ x < img.minX + img.dx
  /\ img.minY <= y /\ y < img.minY + img.dy

PixOffset(img, x, y) == (y - img.minY) * img.dx + (x - img.minX)

At(img, x, y) == img.pix[PixOffset(img, x, y) + 1]

\* image.NewRGBA(image.Rect(0, 0, w, h)): all pixels transparent black
NewRGBA(w, h) ==
  [minX |-> 0, minY |-> 0, dx |-> w, dy |-> h,
   pix |-> [i \in 1..(w * h) |-> <<0, 0, 0, 0>>]]

\* (*image.RGBA).Set: ignored outside the rectangle
RGBASet(img, x, y, c) ==
  IF ~InRect(img, x, y) THEN img
  ELSE [img EXCEPT !.pix[PixOffset(img, x, y) + 1] = RGBAModelConvert(c)]

\* Statement sequencing: the value v of one loop iteration is computed
\* before the next iteration e starts (TLC would otherwise postpone it).
Then(v, e) == IF v = v THEN e ELSE e

\* rotateImage90: the inner loop, over x, for the row y
RECURSIVE rotateRow(_, _, _, _)
rotateRow(img, dst, y, x) ==
  IF x >= img.minX + img.dx THEN dst
  ELSE LET set == RGBASet(dst, (img.minY + img.dy) - y - 1, x, At(img, x, y))
       IN  Then(set, rotateRow(img, set, y, x + 1))

\* rotateImage90: the outer loop, over y
RECURSIVE rotateLoop(_, _, _)
rotateLoop(img, dst, y) ==
  IF y >= img.minY + img.dy THEN dst
  ELSE LET row == rotateRow(img, dst, y, img.minX)
       IN  Then(row, rotateLoop(img, row, y + 1))

\* a rotation by 90 degrees counter-clockwise
rotateImage90Counter(img) ==
  [minX |-> 0, minY |-> 0, dx |-> img.dy, dy |-> img.dx,
   pix |-> [k \in 1..(img.dx * img.dy) |->
              RGBAModelConvert(At(img, img.minX + img.dx - 1 - ((k - 1) \div img.dy),
                                  img.minY + ((k - 1) % img.dy)))]]

rotateImage90(img) == rotateLoop(img, NewRGBA(img.dy, img.dx), img.minY)

\* image.NewPaletted(bounds, palette): all indices 0
NewPaletted(img) ==
  [minX |-> img.minX, minY |-> img.minY, dx |-> img.dx, dy |-> img.dy,
   pix |-> [i \in 1..(img.dx * img.dy) |-> 0]]

\* (*image.Paletted).Set: stores the palette index of the colour
PalettedSet(q, palette, x, y, c) ==
  IF ~InRect(q, x, y) THEN q
  ELSE [q EXCEPT !.pix[PixOffset(q, x, y) + 1] = PaletteIndex(palette, c)]

\* quantizeImage: the inner loop, over x, for the row y
RECURSIVE quantizeRow(_, _, _, _, _)
quantizeRow(img, palette, quantized, y, x) ==
  IF x >= img.minX + img.dx THEN quantized
  ELSE LET originalColor == At(img, x, y)
           closestColor == PaletteConvert(palette, originalColor)
           set == PalettedSet(quantized, palette, x, y, closestColor)
       IN  Then(set, quantizeRow(img, palette, set, y, x + 1))

\* quantizeImage: the outer loop, over y
RECURSIVE quantizeLoop(_, _, _, _)
quantizeLoop(img, palette, quantized, y) ==
  IF y >= img.minY + img.dy THEN quantized
  ELSE LET row == quantizeRow(img, palette, quantized, y, img.minX)
       IN  Then(row, quantizeLoop(img, palette, row, y + 1))

quantizeImage(img, palette) == quantizeLoop(img, palette, NewPaletted(img), img.minY)

\* bitwise OR of two bytes
RECURSIVE Or8(_, _)
Or8(a, b) ==
  IF a = 0 THEN b
  ELSE IF b = 0 THEN a
  ELSE 2 * Or8(a \div 2, b \div 2) + (IF (a % 2) + (b % 2) > 0 THEN 1 ELSE 0)

\* a packing loop that puts the first pixel of a pair into the low nibble
RECURSIVE packLoopLowFirst(_, _, _, _)
packLoopLowFirst(pix, buf, i, idx) ==
  IF i >= Len(pix) THEN buf
  ELSE LET col1 == ColorPaletteBinary[pix[i + 1] + 1]
           col2 == ColorPaletteBinary[pix[i + 2] + 1]
           set == [buf EXCEPT ![idx + 1] = Or8((col2 * 16) % 256, col1)]
       IN  Then(set, packLoopLowFirst(pix, set, i + 2, idx + 1))

\* the packing loop of getBuffer; i and idx are 0-based as in the source
RECURSIVE packLoop(_, _, _, _)
packLoop(pix, buf, i, idx) ==
  IF i >= Len(pix) THEN buf
  ELSE LET col1 == ColorPaletteBinary[pix[i + 1] + 1]
           col2 == ColorPaletteBinary[pix[i + 2] + 1]
           set == [buf EXCEPT ![idx + 1] = Or8((col1 * 16) % 256, col2)]
       IN  Then(set, packLoop(pix, set, i + 2, idx + 1))

\* a nil []byte
NilBuffer == [ok |-> FALSE, bytes |-> <<>>]

\* a buffer of one byte per pixel
makeBufPerPixel == [i \in 1..(EPD_WIDTH * EPD_HEIGHT) |-> 0]

\* buf := make([]byte, EPD_WIDTH*EPD_HEIGHT/2)
makeBuf == [i \in 1..((EPD_WIDTH * EPD_HEIGHT) \div 2) |-> 0]

\* the result of getBuffer for the bitmap imageTemp of panel size
packImage(imageTemp) ==
  LET image7Color == quantizeImage(imageTemp, ColorPalette)
  IN  [ok |-> TRUE, bytes |-> packLoop(image7Color.pix, makeBuf, 0, 0)]

getBuffer(img) ==
  IF img.dx = EPD_WIDTH /\ img.dy = EPD_HEIGHT
  THEN packImage(img)
  ELSE IF img.dx = EPD_HEIGHT /\ img.dy = EPD_WIDTH
  THEN packImage(rotateImage90(img))
  ELSE NilBuffer


\* ------------------------------------------------------------------------
\* Input bitmaps handed to Display.  The colours of a bitmap are taken from
\* TestColors: the six palette colours, two 8-bit colours off the palette,
\* one colour with 16-bit channels (as an image.RGBA64 pixel holds) and
\* cyan, which is equally far from white, blue and green.
\* ------------------------------------------------------------------------
TestColors ==
  <<ColorBlack, ColorWhite, ColorYellow, ColorRed, ColorBlue, ColorGreen,
    RGBA8(128, 128, 128, 255), RGBA8(255, 128, 0, 255),
    <<0, 33023, 32769, 65535>>,
    RGBA8(0, 255, 255, 255)>>

\* a w x h bitmap with Min = (x0, y0) whose pixel (x0 + i, y0 + j) has the
\* colour number (2i + 5j + seed) mod ncolors of TestColors
MkImage(x0, y0, w, h, seed, ncolors) ==
  [minX |-> x0, minY |-> y0, dx |-> w, dy |-> h,
   pix |-> [k \in 1..(w * h) |->
              TestColors[((2 * ((k - 1) % w) + 5 * ((k - 1) \div w) + seed) % ncolors) + 1]]]

\* a w x h bitmap with Min = (0, 0) whose pixels run through the first
\* ncolors colours of TestColors in row-major order
RowImage(w, h, ncolors) ==
  [minX |-> 0, minY |-> 0, dx |-> w, dy |-> h,
   pix |-> [k \in 1..(w * h) |-> TestColors[((k - 1) % ncolors) + 1]]]

NoImage == [minX |-> 0, minY |-> 0, dx |-> 0, dy |-> 0, pix |-> <<>>]

Images ==
  { MkImage(0, 0, EPD_WIDTH, EPD_HEIGHT, 0, 6),
    MkImage(0, 0, EPD_WIDTH, EPD_HEIGHT, 1, 9),
    MkImage(0, 0, EPD_HEIGHT, EPD_WIDTH, 0, 8),
    MkImage(0, 0, EPD_HEIGHT, EPD_WIDTH, 4, 9),
    MkImage(0, 0, EPD_HEIGHT, EPD_HEIGHT, 0, 6),
    MkImage(0, 0, EPD_WIDTH, EPD_HEIGHT + 1, 2, 6),
    RowImage(EPD_WIDTH, EPD_HEIGHT, 10) }

\* ------------------------------------------------------------------------
\* The driver.  Init is the state after New has returned a handle: the three
\* output lines have been driven low.  One caller runs the public methods
\* one after the other; prog is what is left of the method in progress.
\* ------------------------------------------------------------------------
VARIABLES
  dc,        \* level of the data/command line
  cs,        \* level of the chip-select line
  rst,       \* level of the reset line
  busy,      \* level of the busy line, driven by the panel
  op,        \* the method in progress, or the last one when prog is empty
  prevOp,    \* the method that had returned before op was called
  prog,      \* the statements op still has to execute
  fpc,       \* position inside sendCommand / sendData (0..3)
  wpc,       \* "select" inside the loop of waitUntilIdle, else "idle"
  elapsed,   \* milliseconds since waitUntilIdle created its timer
  img,       \* the argument of Display
  buf,       \* the local buf of Display
  panicked,  \* the process has died in panic()
  log,       \* what op has done on the lines and the bus so far
  resolutionSet,  \* history: TCON_RESOLUTION has been transferred since New
  prog2,     \* the statements a second caller of the handle still has to execute
  fpc2,      \* the second caller's position inside sendCommand / sendData
  overlap,   \* history: the two callers have been inside a frame at once
  mpc,       \* position of main: the call it makes next, "driver", "exit"
  npc,       \* position inside New (a step of NewSteps), "ok" or "err" when it has returned
  held,      \* the lines and the port that are configured or open
  quoteRun,  \* the call of fetchQuoteRetry: its locals and what it has done
  weather,   \* the hourly forecast: HourlyWeatherFrom and renderForecast
  icons,     \* history: the calls of Weather.Icon, as <<code, path>>
  calendars, \* the Calendar objects, the clock, and what the last call returned
  dateRun,   \* the call of relativeDate
  rotation   \* the call of rotateImage90

vars ==
  <<dc, cs, rst, busy, op, prevOp, prog, fpc, wpc, elapsed, img, buf, panicked, log,
    resolutionSet, prog2, fpc2, overlap, mpc, npc, held,
    quoteRun, weather, icons, calendars, dateRun, rotation>>

\* what main computes before it draws the dashboard, and the functions
\* looked at on their own
dashboard == <<quoteRun, weather, icons, calendars, dateRun, rotation>>

\* none of them is running
Idle == [pc |-> "idle"]
DashboardIdle ==
  /\ quoteRun = Idle /\ weather = Idle /\ icons = {}
  /\ calendars = Idle /\ dateRun = Idle /\ rotation = Idle

\* what belongs to the second caller, to main and to New
others == <<prog2, fpc2, mpc, npc, held, dashboard>>

lines == <<dc, cs, rst>>

\* time.After(30 * time.Second) and time.Sleep(100 * time.Millisecond)
TimeoutMs == 30000
PollMs == 100

\* statements of the method bodies
Cmd(c) == [i |-> "cmd", b |-> <<c>>, lvl |-> ""]
Data(bs) == [i |-> "data", b |-> bs, lvl |-> ""]
WaitIdle == [i |-> "wait", b |-> <<>>, lvl |-> ""]
Rst(l) == [i |-> "rst", b |-> <<>>, lvl |-> l]
Delay(ms) == [i |-> "sleep", b |-> <<ms>>, lvl |-> ""]
Encode == [i |-> "encode", b |-> <<>>, lvl |-> ""]

\* an entry of log: what was done, and the lines right after it
Ev(t, l, b, d, c) == [t |-> t, lvl |-> l, b |-> b, dc |-> d, cs |-> c]

\* New: widthByte and heightByte of the handle
WidthByteOf(w) == IF w % 8 = 0 THEN w \div 8 ELSE w \div 8 + 1
widthByte == WidthByteOf(EPD_WIDTH)
heightByte == EPD_HEIGHT

\* Reset that leaves the reset line low
ResetBodyHeldLow ==
  <<Rst("High"), Delay(20), Rst("Low"), Delay(2)>>

ResetBody ==
  <<Rst("High"), Delay(20), Rst("Low"), Delay(2), Rst("High"), Delay(20)>>

\* turnOnDisplay that asks for the refresh without waiting for the power-on
turnOnDisplayBodyNoWait ==
  <<Cmd(POWER_ON),
    Cmd(DISPLAY_REFRESH), Data(<<PANEL_SETTING>>), WaitIdle,
    Cmd(POWER_OFF), Data(<<PANEL_SETTING>>), WaitIdle>>

turnOnDisplayBody ==
  <<Cmd(POWER_ON), WaitIdle,
    Cmd(DISPLAY_REFRESH), Data(<<PANEL_SETTING>>), WaitIdle,
    Cmd(POWER_OFF), Data(<<PANEL_SETTING>>), WaitIdle>>

\* the parameter bytes of TCON_RESOLUTION for a panel of w x h pixels,
\* sent low byte first
TconResolutionDataLowFirst(w, h) ==
  <<Data(<<w % 256>>), Data(<<(w \div 256) % 256>>),
    Data(<<h % 256>>), Data(<<(h \div 256) % 256>>)>>

\* the parameter bytes of TCON_RESOLUTION for a panel of w x h pixels:
\* byte(w >> 8), byte(w & 0xff), byte(h >> 8), byte(h & 0xff)
TconResolutionData(w, h) ==
  <<Data(<<(w \div 256) % 256>>), Data(<<w % 256>>),
    Data(<<(h \div 256) % 256>>), Data(<<h % 256>>)>>

\* Init that sends its first command without waiting for the panel
InitBodyNoFirstWait ==
  ResetBody \o <<Cmd(170), WaitIdle, Data(<<73>>), Cmd(POWER_ON), WaitIdle>>

\* Init without the reset pulse
InitBodyNoReset ==
  <<WaitIdle, Delay(30), Cmd(170), Data(<<73>>)>> \o
  <<Cmd(TCON_RESOLUTION)>> \o TconResolutionData(EPD_WIDTH, EPD_HEIGHT) \o
  <<Cmd(POWER_ON), WaitIdle>>

\* Init that leaves the resolution registers unset
InitBodyNoResolution ==
  ResetBody \o
  <<WaitIdle, Delay(30), Cmd(170), Data(<<73>>),
    Cmd(AUTO_MEASUREMENT_VCOM), Data(<<1>>),
    Cmd(POWER_ON), WaitIdle>>

InitBody ==
  ResetBody \o
  <<WaitIdle, Delay(30),
    Cmd(170), Data(<<73>>), Data(<<85>>), Data(<<32>>), Data(<<8>>), Data(<<9>>), Data(<<24>>),
    Cmd(POWER_SETTING), Data(<<63>>),
    Cmd(PANEL_SETTING), Data(<<95>>), Data(<<105>>),
    Cmd(POWER_OFF_SEQUENCE_SETTING), Data(<<0>>), Data(<<84>>), Data(<<0>>), Data(<<68>>),
    Cmd(POWER_ON_MEASURE), Data(<<64>>), Data(<<31>>), Data(<<31>>), Data(<<44>>),
    Cmd(BOOSTER_SOFT_START), Data(<<111>>), Data(<<31>>), Data(<<23>>), Data(<<73>>),
    Cmd(DEEP_SLEEP), Data(<<111>>), Data(<<31>>), Data(<<31>>), Data(<<34>>),
    Cmd(PLL_CONTROL), Data(<<3>>),
    Cmd(VCOM_AND_DATA_INTERVAL_SETTING), Data(<<63>>),
    Cmd(TCON_SETTING), Data(<<2>>), Data(<<0>>),
    Cmd(TCON_RESOLUTION)>> \o
  TconResolutionData(EPD_WIDTH, EPD_HEIGHT) \o
  <<Cmd(AUTO_MEASUREMENT_VCOM), Data(<<1>>),
    Cmd(VCM_DC_SETTING), Data(<<47>>),
    Cmd(POWER_ON), WaitIdle>>

\* Clear that sends one filler byte per eight pixels
ClearBodyOnePerOctet ==
  <<Cmd(DATA_START_TRANSMISSION_1)>> \o
  [k \in 1..(heightByte * widthByte) |-> Data(<<17>>)] \o
  turnOnDisplayBody

\* Clear that fills the panel's memory and leaves out the refresh
ClearBodyNoRefresh ==
  <<Cmd(DATA_START_TRANSMISSION_1)>> \o
  [k \in 1..(heightByte * widthByte * 4) |-> Data(<<17>>)]

ClearBody ==
  <<Cmd(DATA_START_TRANSMISSION_1)>> \o
  [k \in 1..(heightByte * widthByte * 4) |-> Data(<<17>>)] \o
  turnOnDisplayBody

\* Display that starts streaming without the begin-data-transmission command
DisplayBodyNoStart == <<Encode>>

\* Display up to the call of getBuffer
DisplayBody == <<Cmd(DATA_START_TRANSMISSION_1), Encode>>

\* Display that stops streaming one byte before the end of the buffer
DisplayRestShort(b) ==
  IF ~b.ok THEN <<>>
  ELSE [k \in 1..(Len(b.bytes) - 1) |-> Data(<<b.bytes[k]>>)] \o turnOnDisplayBody

\* Display after getBuffer has returned b
DisplayRest(b) ==
  IF ~b.ok THEN <<>>
  ELSE [k \in 1..Len(b.bytes) |-> Data(<<b.bytes[k]>>)] \o turnOnDisplayBody

\* Sleep that sends the command without its check code
SleepBodyNoParameter == <<Cmd(DEEP_SLEEP)>>

SleepBody == <<Cmd(DEEP_SLEEP), Data(<<165>>)>>

Levels == {"Low", "High"}

\* what New acquires: the four lines and the SPI port
Resources == {"dc", "cs", "rst", "busy", "port"}

\* the handle and the lines when New has returned a handle
FreshHandle ==
  /\ dc = "Low" /\ cs = "Low" /\ rst = "Low"
  /\ busy \in Levels
  /\ op = "New" /\ prevOp = "none"
  /\ prog = <<>>
  /\ fpc = 0 /\ wpc = "idle" /\ elapsed = 0
  /\ img = NoImage /\ buf = NilBuffer
  /\ panicked = FALSE
  /\ log = <<>>
  /\ resolutionSet = FALSE
  /\ npc = "ok" /\ held = Resources
  /\ mpc = "driver"
  /\ fpc2 = 0 /\ overlap = FALSE
  /\ DashboardIdle

\* New has returned a handle to its one caller
Init == FreshHandle /\ prog2 = <<>>

\* the caller may call a method when the previous one has returned
Returned == prog = <<>> /\ ~panicked

Call(o, body, i) ==
  /\ Returned
  /\ op' = o /\ prevOp' = op
  /\ prog' = body
  /\ img' = i /\ buf' = NilBuffer
  /\ log' = <<>>
  /\ UNCHANGED <<dc, cs, rst, busy, fpc, wpc, elapsed, panicked, resolutionSet>>
  /\ UNCHANGED <<others, overlap>>

CallInit == Call("Init", InitBody, NoImage)
CallClear == Call("Clear", ClearBody, NoImage)
CallDisplay == \E i \in Images : Call("Display", DisplayBody, i)
CallSleep == Call("Sleep", SleepBody, NoImage)
CallReset == Call("Reset", ResetBody, NoImage)

Running == prog # <<>> /\ ~panicked

\* e.rst.Out(level)
RstOut ==
  /\ Running /\ Head(prog).i = "rst"
  /\ rst' = Head(prog).lvl
  /\ log' = Append(log, Ev("rst", Head(prog).lvl, <<>>, dc, cs))
  /\ prog' = Tail(prog)
  /\ UNCHANGED <<dc, cs, busy, op, prevOp, fpc, wpc, elapsed, img, buf, panicked, resolutionSet>>
  /\ UNCHANGED <<others, overlap>>

\* time.Sleep(d) in Reset and Init
SleepFor ==
  /\ Running /\ Head(prog).i = "sleep"
  /\ log' = Append(log, Ev("sleep", "", Head(prog).b, dc, cs))
  /\ prog' = Tail(prog)
  /\ UNCHANGED <<dc, cs, rst, busy, op, prevOp, fpc, wpc, elapsed, img, buf, panicked, resolutionSet>>
  /\ UNCHANGED <<others, overlap>>

\* the four statements of sendCommand and of sendData: kind is "cmd" or
\* "data", level is what the data/command line is driven to
sendFrame(kind, level) ==
  /\ Running /\ Head(prog).i = kind
  /\ \/ /\ fpc = 0
        /\ dc' = level
        /\ log' = Append(log, Ev("dc", level, <<>>, level, cs))
        /\ fpc' = 1
        /\ UNCHANGED <<cs, prog, resolutionSet>>
     \/ /\ fpc = 1
        /\ cs' = "Low"
        /\ log' = Append(log, Ev("cs", "Low", <<>>, dc, "Low"))
        /\ fpc' = 2
        /\ UNCHANGED <<dc, prog, resolutionSet>>
     \/ /\ fpc = 2
        /\ log' = Append(log, Ev(kind, "", Head(prog).b, dc, cs))
        /\ fpc' = 3
        /\ resolutionSet' = (resolutionSet \/ (kind = "cmd" /\ Head(prog).b = <<TCON_RESOLUTION>>))
        /\ UNCHANGED <<dc, cs, prog>>
     \/ /\ fpc = 3
        /\ cs' = "High"
        /\ log' = Append(log, Ev("cs", "High", <<>>, dc, "High"))
        /\ fpc' = 0
        /\ prog' = Tail(prog)
        /\ UNCHANGED <<dc, resolutionSet>>
  /\ UNCHANGED <<rst, busy, op, prevOp, wpc, elapsed, img, buf, panicked>>
  /\ overlap' = (overlap \/ fpc2 # 0)
  /\ UNCHANGED others

\* sendCommand that leaves the data/command line in data mode
sendCommandDataMode == sendFrame("cmd", "High")

sendCommand == sendFrame("cmd", "Low")

sendData == sendFrame("data", "High")

\* The loop of waitUntilIdle.  fired: the timer channel is ready;
\* idle: e.busy.Read() != gpio.Low; later: the timer's age after
\* time.Sleep(100 ms).
waitLoop(fired, idle, later) ==
  /\ Running /\ Head(prog).i = "wait"
  /\ \/ /\ wpc = "idle"                       \* timeout := time.After(...)
        /\ wpc' = "select" /\ elapsed' = 0
        /\ UNCHANGED <<prog, panicked, log>>
     \/ /\ wpc = "select" /\ fired             \* case <-timeout: panic
        /\ panicked' = TRUE
        /\ log' = Append(log, Ev("timeout", "", <<>>, dc, cs))
        /\ UNCHANGED <<prog, wpc, elapsed>>
     \/ /\ wpc = "select" /\ ~fired            \* default
        /\ IF idle
           THEN /\ wpc' = "idle" /\ elapsed' = 0   \* return
                /\ prog' = Tail(prog)
                /\ log' = Append(log, Ev("idle", "", <<>>, dc, cs))
           ELSE /\ elapsed' = later                \* time.Sleep(100 ms)
                /\ UNCHANGED <<prog, wpc, log>>
        /\ UNCHANGED panicked
  /\ UNCHANGED <<dc, cs, rst, busy, op, prevOp, fpc, img, buf, resolutionSet>>
  /\ UNCHANGED <<others, overlap>>

\* waitUntilIdle with the timer created anew in every iteration
waitUntilIdleRearmed == waitLoop(FALSE, busy # "Low", 0)

\* waitUntilIdle that reports the timeout and carries on with the method
waitUntilIdleCarryOn ==
  /\ Running /\ Head(prog).i = "wait"
  /\ \/ /\ wpc = "idle"
        /\ wpc' = "select" /\ elapsed' = 0
        /\ UNCHANGED <<prog, log>>
     \/ /\ wpc = "select" /\ elapsed >= TimeoutMs
        /\ log' = Append(log, Ev("timeout", "", <<>>, dc, cs))
        /\ wpc' = "idle" /\ elapsed' = 0
        /\ prog' = Tail(prog)
     \/ /\ wpc = "select" /\ elapsed < TimeoutMs
        /\ IF busy # "Low"
           THEN /\ wpc' = "idle" /\ elapsed' = 0
                /\ prog' = Tail(prog)
                /\ log' = Append(log, Ev("idle", "", <<>>, dc, cs))
           ELSE /\ elapsed' = elapsed + PollMs
                /\ UNCHANGED <<prog, wpc, log>>
  /\ UNCHANGED <<dc, cs, rst, busy, op, prevOp, fpc, img, buf, panicked, resolutionSet>>
  /\ UNCHANGED <<others, overlap>>

\* waitUntilIdle with the test of the busy level inverted
waitUntilIdleInverted == waitLoop(elapsed >= TimeoutMs, busy = "Low", elapsed + PollMs)

waitUntilIdle == waitLoop(elapsed >= TimeoutMs, busy # "Low", elapsed + PollMs)

\* Display with a getBuffer that rotates a bitmap of transposed size in
\* place, in the caller's bitmap
DisplayGetBufferInPlace ==
  /\ Running /\ Head(prog).i = "encode"
  /\ buf' = getBuffer(img)
  /\ img' = (IF img.dx = EPD_HEIGHT /\ img.dy = EPD_WIDTH THEN rotateImage90(img) ELSE img)
  /\ prog' = DisplayRest(getBuffer(img))
  /\ log' = Append(log, Ev("encode", "", <<>>, dc, cs))
  /\ UNCHANGED <<dc, cs, rst, busy, op, prevOp, fpc, wpc, elapsed, panicked, resolutionSet>>
  /\ UNCHANGED <<others, overlap>>

\* buf := getBuffer(img) in Display, and the test of buf against nil
DisplayGetBuffer ==
  /\ Running /\ Head(prog).i = "encode"
  /\ buf' = getBuffer(img)
  /\ prog' = DisplayRest(getBuffer(img))
  /\ log' = Append(log, Ev("encode", "", <<>>, dc, cs))
  /\ UNCHANGED <<dc, cs, rst, busy, op, prevOp, fpc, wpc, elapsed, img, panicked, resolutionSet>>
  /\ UNCHANGED <<others, overlap>>

\* the panel changes the busy line
BusyChange ==
  /\ ~panicked
  /\ busy' = IF busy = "Low" THEN "High" ELSE "Low"
  /\ UNCHANGED <<dc, cs, rst, op, prevOp, prog, fpc, wpc, elapsed, img, buf, panicked, log,
                  resolutionSet>>
  /\ UNCHANGED <<others, overlap>>

Step ==
  \/ RstOut
  \/ SleepFor
  \/ sendCommand
  \/ sendData
  \/ waitUntilIdle
  \/ DisplayGetBuffer

Next ==
  \/ CallInit
  \/ CallClear
  \/ CallDisplay
  \/ CallSleep
  \/ CallReset
  \/ Step
  \/ BusyChange

Spec == Init /\ [][Next]_vars

\* the loop of waitUntilIdle keeps running: the calling goroutine is scheduled
FairSpec == Spec /\ WF_vars(waitUntilIdle)


\* ------------------------------------------------------------------------
\* Transfers that fail.  conn.Tx returns an error; sendCommand and sendData
\* drop it and go on with their next statement.  One transfer of a method
\* may fail; the panel's busy line keeps its level.
\* ------------------------------------------------------------------------
TxFails ==
  /\ Running /\ Head(prog).i \in {"cmd", "data"} /\ fpc = 2
  /\ \A k \in 1..Len(log) : log[k].t # "txerr"
  /\ log' = Append(log, Ev("txerr", "", Head(prog).b, dc, cs))
  /\ fpc' = 3
  /\ UNCHANGED <<dc, cs, rst, busy, op, prevOp, prog, wpc, elapsed, img, buf, panicked,
                  resolutionSet, others, overlap>>

FaultNext ==
  \/ CallInit
  \/ CallClear
  \/ CallDisplay
  \/ CallSleep
  \/ CallReset
  \/ Step
  \/ TxFails

FaultSpec == Init /\ [][FaultNext]_vars

\* ------------------------------------------------------------------------
\* Two callers.  A second goroutine runs Sleep once on the handle while the
\* first caller calls Sleep and Reset; nothing serializes them.  The second
\* caller executes the same four statements per frame as the first.
\* ------------------------------------------------------------------------
Running2 == prog2 # <<>>

sendFrame2(kind, level) ==
  /\ Running2 /\ Head(prog2).i = kind
  /\ \/ /\ fpc2 = 0
        /\ dc' = level
        /\ log' = Append(log, Ev("dc", level, <<>>, level, cs))
        /\ fpc2' = 1
        /\ UNCHANGED <<cs, prog2>>
     \/ /\ fpc2 = 1
        /\ cs' = "Low"
        /\ log' = Append(log, Ev("cs", "Low", <<>>, dc, "Low"))
        /\ fpc2' = 2
        /\ UNCHANGED <<dc, prog2>>
     \/ /\ fpc2 = 2
        /\ log' = Append(log, Ev(kind, "", Head(prog2).b, dc, cs))
        /\ fpc2' = 3
        /\ UNCHANGED <<dc, cs, prog2>>
     \/ /\ fpc2 = 3
        /\ cs' = "High"
        /\ log' = Append(log, Ev("cs", "High", <<>>, dc, "High"))
        /\ fpc2' = 0
        /\ prog2' = Tail(prog2)
        /\ UNCHANGED dc
  /\ overlap' = (overlap \/ fpc # 0)
  /\ UNCHANGED <<rst, busy, op, prevOp, prog, fpc, wpc, elapsed, img, buf, panicked,
                  resolutionSet, mpc, npc, held, dashboard>>

\* sendCommand of the second caller that selects data mode
sendCommand2DataMode == sendFrame2("cmd", "High")
sendCommand2 == sendFrame2("cmd", "Low")

sendData2 == sendFrame2("data", "High")

RaceInit == FreshHandle /\ prog2 = SleepBody

RaceNext ==
  \/ CallSleep
  \/ CallReset
  \/ RstOut
  \/ SleepFor
  \/ sendCommand
  \/ sendData
  \/ sendCommand2
  \/ sendData2

RaceSpec == RaceInit /\ [][RaceNext]_vars

\* ------------------------------------------------------------------------
\* main, from GenerateDashboard on, and New.  The lines have any level
\* before New configures them.
\* ------------------------------------------------------------------------
MainInit ==
  /\ dc \in Levels /\ cs \in Levels /\ rst \in Levels
  /\ busy \in Levels
  /\ op = "main" /\ prevOp = "none"
  /\ prog = <<>>
  /\ fpc = 0 /\ wpc = "idle" /\ elapsed = 0
  /\ img = NoImage /\ buf = NilBuffer
  /\ panicked = FALSE
  /\ log = <<>>
  /\ resolutionSet = FALSE
  /\ prog2 = <<>> /\ fpc2 = 0 /\ overlap = FALSE
  /\ mpc = "GenerateDashboard" /\ npc = "host.Init" /\ held = {}
  /\ DashboardIdle

driver == <<dc, cs, rst, busy, op, prevOp, prog, fpc, wpc, elapsed, img, buf, panicked, log,
            resolutionSet, prog2, fpc2, overlap, dashboard>>

\* canvas, err := GenerateDashboard(dashboardConfig); on an error main returns
MainGenerate ==
  /\ mpc = "GenerateDashboard"
  /\ \E ok \in BOOLEAN : mpc' = (IF ok THEN "SavePNG" ELSE "exit")
  /\ UNCHANGED <<driver, npc, held>>

\* err = canvas.SavePNG("dash.png"); on an error main returns
MainSavePNG ==
  /\ mpc = "SavePNG"
  /\ \E ok \in BOOLEAN : mpc' = (IF ok THEN "New" ELSE "exit")
  /\ UNCHANGED <<driver, npc, held>>

\* New returns nil and an error; main ends in log.Fatalf
NewFails(released) ==
  /\ npc' = "err" /\ mpc' = "exit"
  /\ held' = held \ released
  /\ UNCHANGED driver

\* the steps of New, in the order of the code
NewSteps ==
  <<"host.Init", "dc.ByName", "dc.Out", "cs.ByName", "cs.Out", "rst.ByName", "rst.Out",
    "busy.ByName", "busy.In", "spireg.Open", "port.Connect", "return">>

\* the step of New that follows the step at
NewAfter(at) == NewSteps[(CHOOSE k \in 1..Len(NewSteps) : NewSteps[k] = at) + 1]

\* the steps of New that look a line up: gpioreg.ByName, for the
\* data/command line also the test against gpio.INVALID
NewByName ==
  /\ mpc = "New" /\ npc \in {"dc.ByName", "cs.ByName", "rst.ByName", "busy.ByName"}
  /\ \E found \in BOOLEAN :
       IF found
       THEN npc' = NewAfter(npc) /\ UNCHANGED <<driver, mpc, held>>
       ELSE NewFails({})

\* the line that a step of New configures
LineAt(at) ==
  CASE at = "dc.Out" -> "dc" [] at = "cs.Out" -> "cs" [] at = "rst.Out" -> "rst"
    [] OTHER -> "busy"

\* the steps of New that configure a line: Out(gpio.Low) for the three
\* outputs, In(gpio.PullDown, gpio.RisingEdge) for the busy line
NewConfigure ==
  /\ mpc = "New" /\ npc \in {"dc.Out", "cs.Out", "rst.Out", "busy.In"}
  /\ \E ok \in BOOLEAN :
       IF ok
       THEN /\ npc' = NewAfter(npc)
            /\ held' = held \cup {LineAt(npc)}
            /\ dc' = (IF npc = "dc.Out" THEN "Low" ELSE dc)
            /\ cs' = (IF npc = "cs.Out" THEN "Low" ELSE cs)
            /\ rst' = (IF npc = "rst.Out" THEN "Low" ELSE rst)
            /\ UNCHANGED <<busy, op, prevOp, prog, fpc, wpc, elapsed, img, buf, panicked,
                            log, resolutionSet, prog2, fpc2, overlap, mpc, dashboard>>
       ELSE NewFails({})

\* host.Init, spireg.Open, port.Connect (with port.Close when it fails) and
\* the return of the handle
NewHostAndPort ==
  /\ mpc = "New"
  /\ \/ /\ npc = "host.Init"
        /\ \E ok \in BOOLEAN :
             IF ok
             THEN npc' = NewAfter(npc) /\ UNCHANGED <<driver, mpc, held>>
             ELSE NewFails({})
     \/ /\ npc = "spireg.Open"
        /\ \E ok \in BOOLEAN :
             IF ok
             THEN npc' = NewAfter(npc) /\ held' = held \cup {"port"}
                  /\ UNCHANGED <<driver, mpc>>
             ELSE NewFails({})
     \/ /\ npc = "port.Connect"
        /\ \E ok \in BOOLEAN :
             IF ok
             THEN npc' = NewAfter(npc) /\ UNCHANGED <<driver, mpc, held>>
             ELSE NewFails({"port"})
     \/ /\ npc = "return"
        /\ npc' = "ok" /\ mpc' = "driver"
        /\ op' = "New"
        /\ UNCHANGED <<dc, cs, rst, busy, prevOp, prog, fpc, wpc, elapsed, img, buf,
                        panicked, log, resolutionSet, prog2, fpc2, overlap, held,
                        dashboard>>

\* the canvas of main: DefaultWidth x DefaultHeight, the panel on its side
Canvases == {i \in Images : i.dx = EPD_HEIGHT /\ i.dy = EPD_WIDTH}

\* epd.Init(), epd.Clear(), epd.Display(canvas.Image()), epd.Sleep(), one
\* after the other; MainCallOutOfTurn is main with a method called when it
\* is not its turn
MainCallOutOfTurn == mpc = "driver" /\ (CallInit \/ CallClear \/ CallSleep)
MainCall ==
  /\ mpc = "driver"
  /\ \/ op = "New" /\ CallInit
     \/ op = "Init" /\ CallClear
     \/ op = "Clear" /\ \E i \in Canvases : Call("Display", DisplayBody, i)
     \/ op = "Display" /\ CallSleep

\* the return of main after epd.Sleep()
MainReturn ==
  /\ mpc = "driver" /\ op = "Sleep" /\ Returned
  /\ mpc' = "exit"
  /\ UNCHANGED <<driver, npc, held>>

MainNext ==
  \/ MainGenerate
  \/ MainSavePNG
  \/ NewByName
  \/ NewConfigure
  \/ NewHostAndPort
  \/ MainCall
  \/ MainReturn
  \/ Step
  \/ BusyChange

MainSpec == MainInit /\ [][MainNext]_vars

\* ------------------------------------------------------------------------
\* The functions that prepare the dashboard, each looked at on its own.
\* main has not reached the driver: the lines are untouched.
\* ------------------------------------------------------------------------
BeforeDriver ==
  /\ dc = "Low" /\ cs = "Low" /\ rst = "Low" /\ busy = "Low"
  /\ op = "main" /\ prevOp = "none"
  /\ prog = <<>>
  /\ fpc = 0 /\ wpc = "idle" /\ elapsed = 0
  /\ img = NoImage /\ buf = NilBuffer
  /\ panicked = FALSE
  /\ log = <<>>
  /\ resolutionSet = FALSE
  /\ prog2 = <<>> /\ fpc2 = 0 /\ overlap = FALSE
  /\ mpc = "dashboard" /\ npc = "host.Init" /\ held = {}

\* the driver and main stay where they are
beforeDriver ==
  <<dc, cs, rst, busy, op, prevOp, prog, fpc, wpc, elapsed, img, buf, panicked, log,
    resolutionSet, prog2, fpc2, overlap, mpc, npc, held>>

\* ------------------------------------------------------------------------
\* fetchQuoteRetry and fetchQuote
\* ------------------------------------------------------------------------
MaxRetries == 3

\* quote{} and two quotes of the service
EmptyQuote == [Text |-> "", Author |-> ""]
Quotes ==
  { EmptyQuote,
    [Text |-> "Zeit ist Geld", Author |-> "Franklin"],
    [Text |-> "Carpe diem", Author |-> "Horaz"] }

\* what fetchQuote returns: the decoded quote with a nil error, or quote{}
\* with the error of http.Get, of the status code or of the decoder
FetchQuoteResults ==
  {[q |-> x, err |-> "nil"] : x \in Quotes}
    \cup {[q |-> EmptyQuote, err |-> e] : e \in {"http.Get", "status code", "decoding"}}

\* errors.Is(err, errInvalidQuote): each error of fetchQuote wraps it
IsInvalidQuote(err) == err \in {"http.Get", "status code", "decoding"}

NoReturn == [q |-> EmptyQuote, err |-> "running"]

QuoteInit ==
  /\ BeforeDriver
  /\ \E n \in (-1)..MaxRetries :
       quoteRun = [pc |-> "for", maxRetries |-> n, i |-> 0, q |-> EmptyQuote, err |-> "nil",
                   fetched |-> <<>>, ret |-> NoReturn]
  /\ weather = Idle /\ icons = {} /\ calendars = Idle /\ dateRun = Idle /\ rotation = Idle

\* i <= maxRetries instead of i < maxRetries
MoreRetriesInclusive(r) == r.i <= r.maxRetries
MoreRetries(r) == r.i < r.maxRetries

\* the condition of the for loop, and the return after the loop
fetchQuoteRetryFor ==
  /\ quoteRun.pc = "for"
  /\ quoteRun' =
       IF MoreRetries(quoteRun)
       THEN [quoteRun EXCEPT !.pc = "fetchQuote"]
       ELSE [quoteRun EXCEPT !.pc = "returned",
                             !.ret = [q |-> EmptyQuote, err |-> "failed to fetch quote"]]
  /\ UNCHANGED <<beforeDriver, weather, icons, calendars, dateRun, rotation>>

\* q, err = fetchQuote() and the two tests of err
fetchQuoteRetryBody ==
  /\ quoteRun.pc = "fetchQuote"
  /\ \E r \in FetchQuoteResults :
       LET run == [quoteRun EXCEPT !.q = r.q, !.err = r.err,
                                   !.fetched = Append(quoteRun.fetched, r)]
       IN  quoteRun' =
             IF r.err = "nil"
             THEN [run EXCEPT !.pc = "returned", !.ret = [q |-> r.q, err |-> "nil"]]
             ELSE IF IsInvalidQuote(r.err)
             THEN [run EXCEPT !.pc = "Sleep"]
             ELSE [run EXCEPT !.pc = "returned", !.ret = [q |-> EmptyQuote, err |-> r.err]]
  /\ UNCHANGED <<beforeDriver, weather, icons, calendars, dateRun, rotation>>

\* time.Sleep(200 ms); continue
fetchQuoteRetryContinue ==
  /\ quoteRun.pc = "Sleep"
  /\ quoteRun' = [quoteRun EXCEPT !.pc = "for", !.i = quoteRun.i + 1]
  /\ UNCHANGED <<beforeDriver, weather, icons, calendars, dateRun, rotation>>

QuoteNext ==
  \/ fetchQuoteRetryFor
  \/ fetchQuoteRetryBody
  \/ fetchQuoteRetryContinue

QuoteSpec == QuoteInit /\ [][QuoteNext]_vars

\* every statement of fetchQuoteRetry, the call of fetchQuote included, returns
FairQuoteSpec == QuoteSpec /\ WF_vars(QuoteNext)

\* ------------------------------------------------------------------------
\* The hourly forecast: HourlyWeatherFrom, renderForecast, Weather.Icon.
\* Time is counted in hours from 00:00 of the first day of the response; a
\* pointer is a sequence of length 0 (nil) or 1.
\* ------------------------------------------------------------------------
ResponseHours == 31

\* the hours HourlyWeatherFrom keeps
targetHours == 6..20

\* what t.Local() adds to the hour of a time parsed as UTC
LocalOffsets == {0, 1, 2}

\* weatherIcons with the code 3 in two groups
weatherIconsOverlapping ==
  [icon \in {"sunny", "sunny-cloudy", "cloudy", "foggy", "rainy-1", "rainy-2", "rainy-3",
             "snow-and-rain", "snowy-1", "snowy-2", "snowy-3", "stormy"} |->
     CASE icon = "sunny" -> <<0>>
       [] icon = "sunny-cloudy" -> <<1, 2, 3>>
       [] icon = "cloudy" -> <<3>>
       [] icon = "foggy" -> <<45, 48>>
       [] icon = "rainy-1" -> <<51, 61, 80>>
       [] icon = "rainy-2" -> <<53, 63, 81>>
       [] icon = "rainy-3" -> <<55, 65, 82>>
       [] icon = "snow-and-rain" -> <<56, 57, 66, 67>>
       [] icon = "snowy-1" -> <<71, 85>>
       [] icon = "snowy-2" -> <<73, 77>>
       [] icon = "snowy-3" -> <<75, 86>>
       [] OTHER -> <<95, 96, 99>>]
weatherIcons ==
  [icon \in {"sunny", "sunny-cloudy", "cloudy", "foggy", "rainy-1", "rainy-2", "rainy-3",
             "snow-and-rain", "snowy-1", "snowy-2", "snowy-3", "stormy"} |->
     CASE icon = "sunny" -> <<0>>
       [] icon = "sunny-cloudy" -> <<1, 2>>
       [] icon = "cloudy" -> <<3>>
       [] icon = "foggy" -> <<45, 48>>
       [] icon = "rainy-1" -> <<51, 61, 80>>
       [] icon = "rainy-2" -> <<53, 63, 81>>
       [] icon = "rainy-3" -> <<55, 65, 82>>
       [] icon = "snow-and-rain" -> <<56, 57, 66, 67>>
       [] icon = "snowy-1" -> <<71, 85>>
       [] icon = "snowy-2" -> <<73, 77>>
       [] icon = "snowy-3" -> <<75, 86>>
       [] OTHER -> <<95, 96, 99>>]

\* the keys of weatherConditions
weatherConditions ==
  {0, 1, 2, 3, 45, 48, 51, 53, 55, 56, 57, 61, 63, 65, 66, 67, 71, 73, 75, 77,
   80, 81, 82, 85, 86, 95, 96, 99}

\* the groups in which the loops of Weather.Icon find the code
IconGroups(code) ==
  {icon \in DOMAIN weatherIcons :
     \E k \in 1..Len(weatherIcons[icon]) : weatherIcons[icon][k] = code}

\* Weather.Icon: the paths it can return.  The range over the map visits the
\* groups in any order and the first group that has the code is returned.
\* A path is the sequence of its parts, the empty path the empty sequence.
IconPaths(w) ==
  IF w.WeatherCode = <<>> THEN {<<>>}
  ELSE IF IconGroups(w.WeatherCode[1]) = {} THEN {<<"icons/weather/", "unknown", ".png">>}
  ELSE {<<"icons/weather/", icon, ".png">> : icon \in IconGroups(w.WeatherCode[1])}

\* response.Hourly.WeatherCode: complete lists, a list with nil entries and
\* a code of no group, and a list shorter than response.Hourly.Time
CodeLists ==
  { [k \in 1..ResponseHours |-> <<<<0, 3, 61, 95, 3>>[((k - 1) % 5) + 1]>>],
    [k \in 1..ResponseHours |-> <<<<2, 4, 2, 67>>[((k - 1) % 4) + 1]>>],
    [k \in 1..ResponseHours |-> IF k % 5 = 0 THEN <<>> ELSE <<<<1, 4, 1>>[((k - 1) % 3) + 1]>>],
    [k \in 1..9 |-> <<<<71, 86>>[((k - 1) % 2) + 1]>>] }

\* response.Hourly.Time: one string per hour, or with one string that
\* time.Parse rejects
TimeLists ==
  { [k \in 1..ResponseHours |-> <<k - 1>>],
    [k \in 1..ResponseHours |-> IF k = 12 THEN <<>> ELSE <<k - 1>>] }

NilResponse == [isNil |-> TRUE, Time |-> <<>>, WeatherCode |-> <<>>]

Responses ==
  {NilResponse} \cup
    {[isNil |-> FALSE, Time |-> ts, WeatherCode |-> cs0] : ts \in TimeLists, cs0 \in CodeLists}

\* t.Local().Hour()
LocalHour(t, offset) == (t + offset) % 24

\* _, ok := targetHours[h]
IsTargetHour(h) == h \in targetHours

\* the loop of HourlyWeatherFrom from the index k on
RECURSIVE HourlyLoop(_, _, _, _, _)
HourlyLoop(response, now, offset, k, result) ==
  IF k > Len(response.Time) THEN [result |-> result, err |-> "nil"]
  ELSE IF response.Time[k] = <<>> THEN [result |-> result, err |-> "failed to parse time"]
  ELSE
    LET t == response.Time[k][1]
        code == IF k <= Len(response.WeatherCode) THEN response.WeatherCode[k] ELSE <<>>
    IN  IF t < now THEN HourlyLoop(response, now, offset, k + 1, result)
        ELSE IF ~IsTargetHour(LocalHour(t, offset))
        THEN HourlyLoop(response, now, offset, k + 1, result)
        ELSE HourlyLoop(response, now, offset, k + 1,
                        [u \in (DOMAIN result) \cup {t} |->
                           IF u = t THEN [WeatherCode |-> code] ELSE result[u]])

EmptyHourly == [u \in {} |-> [WeatherCode |-> <<>>]]

HourlyWeatherFromOf(response, now, offset) ==
  IF response.isNil THEN [result |-> EmptyHourly, err |-> "nil"]
  ELSE HourlyLoop(response, now, offset, 1, EmptyHourly)

WeatherInit ==
  /\ BeforeDriver
  /\ \E response \in Responses, now \in 0..ResponseHours, offset \in LocalOffsets :
       weather = [pc |-> "HourlyWeatherFrom", response |-> response, now |-> now,
                  offset |-> offset, result |-> EmptyHourly, err |-> "nil",
                  times |-> <<>>, columns |-> <<>>, rerr |-> "running"]
  /\ icons = {}
  /\ quoteRun = Idle /\ calendars = Idle /\ dateRun = Idle /\ rotation = Idle

\* hourlyWeatherData, err := HourlyWeatherFrom(hourlyWeather); main ends in
\* log.Fatal when err is not nil
HourlyWeatherFrom ==
  /\ weather.pc = "HourlyWeatherFrom"
  /\ LET r == HourlyWeatherFromOf(weather.response, weather.now, weather.offset)
     IN  weather' = [weather EXCEPT !.result = r.result, !.err = r.err,
                                     !.pc = IF r.err = "nil" THEN "renderForecast" ELSE "exit"]
  /\ UNCHANGED <<beforeDriver, quoteRun, icons, calendars, dateRun, rotation>>

\* the times in ascending order: sort.Slice with Before on the keys of a map
RECURSIVE SortTimes(_)
SortTimes(ts) ==
  IF ts = {} THEN <<>>
  ELSE LET first == CHOOSE t \in ts : \A u \in ts : t <= u
       IN  <<first>> \o SortTimes(ts \ {first})

\* the columns renderForecast keeps
ForecastColumns == 7

\* layout of a column
forecastWidth == 59
forecastLeft == 43

\* renderForecast up to its loop: the keys, sorted and cut
renderForecastTimes ==
  /\ weather.pc = "renderForecast"
  /\ LET sorted == SortTimes(DOMAIN weather.result)
         times == IF Len(sorted) > ForecastColumns
                  THEN SubSeq(sorted, 1, ForecastColumns) ELSE sorted
     IN  weather' = [weather EXCEPT !.times = times,
                                     !.pc = IF Len(times) = 0 THEN "returned" ELSE "column",
                                     !.rerr = IF Len(times) = 0 THEN "nil" ELSE @]
  /\ UNCHANGED <<beforeDriver, quoteRun, icons, calendars, dateRun, rotation>>

\* one pass of the loop of renderForecast: the icon, the hour, the
\* temperature and the precipitation of one column
renderForecastColumn ==
  /\ weather.pc = "column"
  /\ LET k == Len(weather.columns)
         t == weather.times[k + 1]
     IN  \E iconPath \in IconPaths(weather.result[t]) :
           /\ icons' = icons \cup {<<weather.result[t].WeatherCode, iconPath>>}
           /\ weather' =
                IF iconPath = <<>>
                THEN [weather EXCEPT !.pc = "returned", !.rerr = "icon path is empty"]
                ELSE [weather EXCEPT
                        !.columns = Append(@, [x |-> forecastLeft + k * forecastWidth,
                                               t |-> t, icon |-> iconPath]),
                        !.pc = IF k + 1 = Len(weather.times) THEN "returned" ELSE "column",
                        !.rerr = IF k + 1 = Len(weather.times) THEN "nil" ELSE @]
  /\ UNCHANGED <<beforeDriver, quoteRun, calendars, dateRun, rotation>>

WeatherNext ==
  \/ HourlyWeatherFrom
  \/ renderForecastTimes
  \/ renderForecastColumn

WeatherSpec == WeatherInit /\ [][WeatherNext]_vars

\* ------------------------------------------------------------------------
\* The calendars: Calendar.Fetch, Calendar.FutureEvents,
\* Calendars.MergedEvents and buildAppointments.  Time is counted in days;
\* time.Now() is read anew at every use and may have moved on by then.
\* ------------------------------------------------------------------------
MaxNow == 2

\* time.Now().Add(14 * 24 * time.Hour), in days
Horizon == 14

calendarEventCount == 7

\* NewCalendar for the calendars of the configuration
NewCalendar(name, col) == [Name |-> name, Color |-> col, Events |-> <<>>, fetched |-> FALSE]

GetCalendars == <<NewCalendar("work", "red"), NewCalendar("home", "blue")>>
NumCalendars == Len(GetCalendars)

\* an event of a feed; start is what GetStartAt reads, <<>> when it fails
VEvent(uid, start) == [uid |-> uid, start |-> start]

\* what ics.ParseCalendarFromUrl can deliver for the URL of the calendar c
Feeds(c) ==
  IF c = 1
  THEN { <<VEvent("a1", <<3>>), VEvent("a2", <<1>>), VEvent("a3", <<>>), VEvent("a4", <<20>>),
           VEvent("a5", <<2>>), VEvent("a6", <<6>>)>>,
         <<>> }
  ELSE { <<VEvent("b1", <<2>>), VEvent("b2", <<8>>), VEvent("b3", <<4>>), VEvent("b4", <<5>>),
           VEvent("b5", <<9>>)>> }

\* the length of the longest feed
MaxFeed ==
  LET all == UNION {Feeds(c) : c \in 1..NumCalendars}
  IN  CHOOSE n \in {Len(f) : f \in all} : \A f \in all : Len(f) <= n

\* the outcomes of ics.ParseCalendarFromUrl: an error, or a feed
Downloads(c) ==
  {[ok |-> FALSE, feed |-> <<>>]} \cup {[ok |-> TRUE, feed |-> f] : f \in Feeds(c)}

\* the outcomes that matter to a call of Fetch on the calendar number c: a
\* calendar that has been fetched does not look at the URL
DownloadsFor(cals, c) ==
  IF cals[c].fetched THEN {[ok |-> FALSE, feed |-> <<>>]} ELSE Downloads(c)

\* the uses of time.Now() before which the clock can move on (0: none)
TickChoices(now, uses) == IF now < MaxNow THEN 0..uses ELSE {0}

\* Fetch that downloads whether or not the calendar has been fetched
FetchOfAlways(c, download) ==
  IF ~download.ok
  THEN [cal |-> c, err |-> "failed to parse calendar", contacted |-> TRUE]
  ELSE [cal |-> [c EXCEPT !.fetched = TRUE, !.Events = download.feed],
        err |-> "nil", contacted |-> TRUE]
\* Calendar.Fetch on the calendar c when the URL would deliver download
FetchOf(c, download) ==
  IF c.fetched THEN [cal |-> c, err |-> "nil", contacted |-> FALSE]
  ELSE IF ~download.ok
  THEN [cal |-> c, err |-> "failed to parse calendar", contacted |-> TRUE]
  ELSE [cal |-> [c EXCEPT !.fetched = TRUE, !.Events = download.feed],
        err |-> "nil", contacted |-> TRUE]

\* the readings of time.Now() for n uses in a row, from the clock value now:
\* the clock moves on by one before the use number tickAt (0: not at all)
Readings(now, n, tickAt) == [k \in 1..n |-> IF tickAt # 0 /\ k >= tickAt THEN now + 1 ELSE now]

\* FutureEvents that keeps the events that start after until
FutureEventsLoopNoUntil(c, readings, until, k, futureEvents) ==
  LET RECURSIVE loop(_, _)
      loop(j, acc) ==
        IF j > Len(c.Events) THEN acc
        ELSE IF c.Events[j].start = <<>> THEN loop(j + 1, acc)
        ELSE IF c.Events[j].start[1] < readings[j] THEN loop(j + 1, acc)
        ELSE loop(j + 1, Append(acc, [VEvent |-> c.Events[j], Tag |-> c.Name,
                                      Color |-> c.Color]))
  IN  loop(k, futureEvents)
\* the loop of FutureEvents from the event k on; readings[k] is time.Now()
\* at the test of the event k
FutureEventsLoop(c, readings, until, k, futureEvents) ==
  LET RECURSIVE loop(_, _)
      loop(j, acc) ==
        IF j > Len(c.Events) THEN acc
        ELSE IF c.Events[j].start = <<>> THEN loop(j + 1, acc)
        ELSE IF c.Events[j].start[1] < readings[j] \/ c.Events[j].start[1] > until
        THEN loop(j + 1, acc)
        ELSE loop(j + 1, Append(acc, [VEvent |-> c.Events[j], Tag |-> c.Name,
                                      Color |-> c.Color]))
  IN  loop(k, futureEvents)

\* Calendar.FutureEvents: Fetch, then the loop
FutureEventsOf(c, download, now, tickAt, until) ==
  LET f == FetchOf(c, download)
      readings == Readings(now, Len(f.cal.Events), tickAt)
  IN  IF f.err # "nil"
      THEN [cal |-> f.cal, err |-> "failed to fetch future events", events |-> <<>>,
            readings |-> <<>>, contacted |-> f.contacted]
      ELSE [cal |-> f.cal, err |-> "nil",
            events |-> FutureEventsLoop(f.cal, readings, until, 1, <<>>),
            readings |-> readings, contacted |-> f.contacted]

NoCall == [call |-> "none"]

CalendarInit ==
  /\ BeforeDriver
  /\ calendars = [pc |-> "calendars", cals |-> GetCalendars, now |-> 0,
                  downloaded |-> [c \in 1..NumCalendars |-> 0],
                  last |-> NoCall]
  /\ quoteRun = Idle /\ weather = Idle /\ icons = {} /\ dateRun = Idle /\ rotation = Idle

\* the clock moves on between two calls
Tick ==
  /\ calendars.now < MaxNow
  /\ calendars' = [calendars EXCEPT !.now = @ + 1]
  /\ UNCHANGED <<beforeDriver, quoteRun, weather, icons, dateRun, rotation>>

\* the successful downloads of the calendar number c, counted
Counted(cal, c, f, download) ==
  [cal EXCEPT !.downloaded[c] = IF f.contacted /\ download.ok THEN @ + 1 ELSE @]

\* c.Fetch() on one of the calendars
Fetch ==
  /\ \E c \in 1..NumCalendars :
     \E download \in DownloadsFor(calendars.cals, c) :
       LET f == FetchOf(calendars.cals[c], download)
       IN  calendars' =
             [Counted(calendars, c, f, download) EXCEPT
                !.cals[c] = f.cal,
                !.last = [call |-> "Fetch", c |-> c, err |-> f.err,
                          contacted |-> IF f.contacted THEN {c} ELSE {}]]
  /\ UNCHANGED <<beforeDriver, quoteRun, weather, icons, dateRun, rotation>>

\* c.FutureEvents(until) on one of the calendars
FutureEvents ==
  /\ \E c \in 1..NumCalendars :
     \E download \in DownloadsFor(calendars.cals, c), until \in {3, calendars.now + Horizon},
        tickAt \in TickChoices(calendars.now, MaxFeed) :
       LET r == FutureEventsOf(calendars.cals[c], download, calendars.now, tickAt, until)
       IN  /\ tickAt <= Len(r.readings)
           /\ tickAt # 0 => calendars.now < MaxNow
           /\ calendars' =
                [Counted(calendars, c, r, download) EXCEPT
                   !.cals[c] = r.cal,
                   !.now = IF tickAt # 0 THEN @ + 1 ELSE @,
                   !.last = [call |-> "FutureEvents", c |-> c, until |-> until,
                             err |-> r.err, events |-> r.events, readings |-> r.readings,
                             contacted |-> IF r.contacted THEN {c} ELSE {}]]
  /\ UNCHANGED <<beforeDriver, quoteRun, weather, icons, dateRun, rotation>>

\* the loop of Calendars.MergedEvents from the calendar c on; tickAt counts
\* the uses of time.Now() over all calendars
RECURSIVE MergedLoop(_, _, _, _, _, _, _, _)
MergedLoop(cals, downloads, now, tickAt, until, c, mergedEvents, contacted) ==
  IF c > Len(cals)
  THEN [cals |-> cals, err |-> "nil", events |-> mergedEvents, contacted |-> contacted]
  ELSE
    LET seen == Len(contacted[2])
        localTick == IF tickAt = 0 THEN 0 ELSE IF tickAt <= seen THEN 1 ELSE tickAt - seen
        r == FutureEventsOf(cals[c], downloads[c], now, localTick, until)
        done == <<contacted[1] \cup (IF r.contacted THEN {c} ELSE {}),
                  contacted[2] \o r.readings>>
    IN  IF r.err # "nil"
        THEN [cals |-> [cals EXCEPT ![c] = r.cal], err |-> "failed to fetch future events",
              events |-> <<>>, contacted |-> done]
        ELSE MergedLoop([cals EXCEPT ![c] = r.cal], downloads, now, tickAt, until, c + 1,
                        mergedEvents \o r.events, done)

\* the comparison function that MergedEvents hands to slices.SortFunc
CompareStart(a, b) ==
  IF a.VEvent.start = <<>> \/ b.VEvent.start = <<>> THEN 0
  ELSE IF a.VEvent.start[1] < b.VEvent.start[1] THEN -1
  ELSE IF a.VEvent.start[1] > b.VEvent.start[1] THEN 1
  ELSE 0

\* slices.SortFunc: the orders it can leave the events in; it is not
\* stable, events that compare equal come out in any order.  SortFuncAsIs
\* leaves the events as they are.
SortFuncAsIs(events, idx) == {events}
RECURSIVE SortFunc(_, _)
SortFunc(events, idx) ==
  IF idx = {} THEN {<<>>}
  ELSE LET firsts == {j \in idx : \A k \in idx : CompareStart(events[j], events[k]) <= 0}
       IN  UNION {{<<events[j]>> \o rest : rest \in SortFunc(events, idx \ {j})} : j \in firsts}

\* the loop of buildAppointments from the event k on
RECURSIVE AppointmentsLoop(_, _, _)
AppointmentsLoop(events, k, appointments) ==
  IF k > Len(events) THEN [appointments |-> appointments, err |-> "nil"]
  ELSE IF events[k].VEvent.start = <<>>
  THEN [appointments |-> <<>>, err |-> "failed to get start time"]
  ELSE
    LET more == Append(appointments,
                       [Title |-> events[k].VEvent.uid, Start |-> events[k].VEvent.start[1],
                        Tag |-> events[k].Tag, Color |-> events[k].Color])
    IN  IF Len(more) = calendarEventCount
        THEN [appointments |-> more, err |-> "nil"]
        ELSE AppointmentsLoop(events, k + 1, more)

\* appointments, err := buildAppointments(cfg.GetCalendars(), location)
buildAppointments ==
  /\ \E downloads \in {d \in [1..NumCalendars -> UNION {Downloads(c) : c \in 1..NumCalendars}] :
                          \A c \in 1..NumCalendars : d[c] \in DownloadsFor(calendars.cals, c)},
        tickAt \in TickChoices(calendars.now, NumCalendars * MaxFeed) :
       LET until == calendars.now + Horizon
           m == MergedLoop(calendars.cals, downloads, calendars.now, tickAt, until, 1,
                           <<>>, <<{}, <<>>>>)
       IN  /\ tickAt <= Len(m.contacted[2])
           /\ tickAt # 0 => calendars.now < MaxNow
           /\ \E sorted \in SortFunc(m.events, 1..Len(m.events)) :
                LET a == IF m.err # "nil"
                         THEN [appointments |-> <<>>, err |-> "failed to fetch merged events"]
                         ELSE AppointmentsLoop(sorted, 1, <<>>)
                IN  calendars' =
                      [calendars EXCEPT
                         !.cals = m.cals,
                         !.now = IF tickAt # 0 THEN @ + 1 ELSE @,
                         !.downloaded = [c \in 1..NumCalendars |->
                                           IF c \in m.contacted[1] /\ downloads[c].ok
                                           THEN @[c] + 1 ELSE @[c]],
                         !.last = [call |-> "buildAppointments", until |-> until,
                                   err |-> a.err, appointments |-> a.appointments,
                                   merged |-> m.events, readings |-> m.contacted[2],
                                   contacted |-> m.contacted[1]]]
  /\ UNCHANGED <<beforeDriver, quoteRun, weather, icons, dateRun, rotation>>

CalendarNext ==
  \/ Tick
  \/ Fetch
  \/ FutureEvents
  \/ buildAppointments

CalendarSpec == CalendarInit /\ [][CalendarNext]_vars

\* ------------------------------------------------------------------------
\* relativeDate.  A time is a number of minutes since 00:00 of a Sunday, in
\* the location of the dashboard.
\* ------------------------------------------------------------------------
DateDays == 2

MinutesPerHour == 60
HoursPerDay == 24

days == <<"Sonntag", "Montag", "Dienstag", "Mittwoch", "Donnerstag", "Freitag", "Samstag">>

\* the times of day and the times the model looks at
Clocks == {<<0, 0>>, <<0, 4>>, <<9, 0>>, <<15, 4>>, <<23, 59>>}
Times ==
  {(day * HoursPerDay + hm[1]) * MinutesPerHour + hm[2] : day \in 0..DateDays, hm \in Clocks}

\* t.Hour(), t.Minute(), t.Weekday(), t.Format("15:04")
Hour(t) == (t \div MinutesPerHour) % HoursPerDay
Minute(t) == t % MinutesPerHour
Weekday(t) == (t \div (MinutesPerHour * HoursPerDay)) % 7
Format1504(t) == <<Hour(t), Minute(t)>>

\* dayDiff == n for dayDiff := t.Sub(now).Hours() / 24: the quotient of
\* floating-point numbers is n only when t is n times 24 hours after now
DayDiffIs(t, now, n) == t - now = n * HoursPerDay * MinutesPerHour

\* relativeDate of the dashboard with the all-day branch (allDay TRUE) and
\* without it; the result is the text before the time and the time
relativeDateOf(t, now, allDay) ==
  IF DayDiffIs(t, now, 0) THEN [day |-> "", time |-> Format1504(t)]
  ELSE IF DayDiffIs(t, now, 1) THEN [day |-> "Morgen", time |-> Format1504(t)]
  ELSE IF allDay /\ Hour(t) = 0 /\ Minute(t) = 0
  THEN [day |-> days[Weekday(t) + 1], time |-> <<>>]
  ELSE [day |-> days[Weekday(t) + 1], time |-> Format1504(t)]

DateInit ==
  /\ BeforeDriver
  /\ \E t \in Times, now \in Times, allDay \in BOOLEAN :
       dateRun = [pc |-> "relativeDate", t |-> t, now |-> now, allDay |-> allDay,
                  ret |-> [day |-> "", time |-> <<>>]]
  /\ quoteRun = Idle /\ weather = Idle /\ icons = {} /\ calendars = Idle /\ rotation = Idle

\* relativeDate(appointment.Start)
relativeDate ==
  /\ dateRun.pc = "relativeDate"
  /\ dateRun' = [dateRun EXCEPT !.pc = "returned",
                                !.ret = relativeDateOf(dateRun.t, dateRun.now, dateRun.allDay)]
  /\ UNCHANGED <<beforeDriver, quoteRun, weather, icons, calendars, rotation>>

DateNext == relativeDate

DateSpec == DateInit /\ [][DateNext]_vars

\* ------------------------------------------------------------------------
\* rotateImage90 on bitmaps of any size and any Min point
\* ------------------------------------------------------------------------
MaxSide == 3

\* bitmaps whose bounds start at (0, 0), below it, right of it and left of it
Sources ==
  {MkImage(x0, y0, w, h, seed, 6) :
     x0 \in {-1, 0, 1}, y0 \in {0, 2}, w \in 1..MaxSide, h \in 1..MaxSide, seed \in 0..2}

RotateInit ==
  /\ BeforeDriver
  /\ \E source \in Sources : rotation = [pc |-> "rotateImage90", img |-> source, dst |-> NoImage]
  /\ quoteRun = Idle /\ weather = Idle /\ icons = {} /\ calendars = Idle /\ dateRun = Idle

\* dst := rotateImage90(img)
rotate ==
  /\ rotation.pc = "rotateImage90"
  /\ rotation' = [rotation EXCEPT !.pc = "returned", !.dst = rotateImage90(rotation.img)]
  /\ UNCHANGED <<beforeDriver, quoteRun, weather, icons, calendars, dateRun>>

RotateNext == rotate

RotateSpec == RotateInit /\ [][RotateNext]_vars


\* ========================================================================
\* Properties
\* ========================================================================
Last(s) == s[Len(s)]

IsPrefix(s, t) == Len(s) <= Len(t) /\ s = SubSeq(t, 1, Len(s))

IsTx(e) == e.t \in {"cmd", "data"}

\* the pin writes and transfers of sendCommand / sendData in log
BusLog == SelectSeq(log, LAMBDA e : e.t \in {"dc", "cs", "cmd", "data"})

\* the transfers in log, as <<kind, bytes>>
Frames ==
  LET tx == SelectSeq(log, IsTx)
  IN  [k \in 1..Len(tx) |-> <<tx[k].t, tx[k].b>>]

\* C1: every sendCommand(c) is exactly: data/command line low, chip-select
\* low, one transfer of the single byte c, chip-select high; every sendData
\* is exactly: data/command line high, chip-select low, one transfer of the
\* whole byte sequence, chip-select high.  So every transfer happens with
\* chip-select low, and with the data/command line low exactly when it is a
\* command.
C1_FrameOrder ==
  LET b == BusLog
      n == Len(b)
  IN  /\ n % 4 = fpc
      /\ \A k \in 1..n :
           LET tx == b[k + 3 - ((k - 1) % 4) - 1]  \* the transfer of k's frame
           IN  CASE (k - 1) % 4 = 0 ->
                      /\ b[k].t = "dc"
                      /\ k + 2 <= n =>
                           b[k].lvl = (IF b[k + 2].t = "cmd" THEN "Low" ELSE "High")
                 [] (k - 1) % 4 = 1 -> b[k].t = "cs" /\ b[k].lvl = "Low"
                 [] (k - 1) % 4 = 2 ->
                      /\ IsTx(b[k])
                      /\ b[k].cs = "Low"
                      /\ (b[k].dc = "Low") <=> (b[k].t = "cmd")
                      /\ b[k].t = "cmd" => Len(b[k].b) = 1
                 [] OTHER -> b[k].t = "cs" /\ b[k].lvl = "High" /\ b[k].cs = "High"
      /\ fpc = 3 => Last(b).t = Head(prog).i /\ Last(b).b = Head(prog).b
      /\ fpc \in {1, 2} => dc = (IF Head(prog).i = "cmd" THEN "Low" ELSE "High")

\* a command frame and a data frame have been sent completely
C1_Witness ==
  /\ fpc = 0 /\ Len(log) >= 8
  /\ \E k \in 1..Len(log) : log[k].t = "cmd"
  /\ \E k \in 1..Len(log) : log[k].t = "data"

\* what Init is to put on the reset line and the bus, parameter bytes left out
InitOrder ==
  <<"rst:High", "rst:Low", "rst:High", "idle",
    "cmd:170", "cmd:1", "cmd:0", "cmd:3", "cmd:5", "cmd:6", "cmd:7", "cmd:48",
    "cmd:80", "cmd:96", "cmd:97", "cmd:128", "cmd:130", "cmd:4", "idle">>

Token(e) ==
  IF e.t = "rst" THEN "rst:" \o e.lvl
  ELSE IF e.t = "cmd" THEN "cmd:" \o ToString(e.b[1])
  ELSE e.t

\* the reset writes, returns of wait-idle and commands in log
SignificantLog ==
  LET sig == SelectSeq(log, LAMBDA e : e.t \in {"rst", "idle", "cmd"})
  IN  [k \in 1..Len(sig) |-> Token(sig[k])]

\* C2: on every call Init performs in this order the reset pulse (high, low,
\* high), a wait-idle, the commands 0xAA, 0x01, 0x00, 0x03, 0x05, 0x06, 0x07,
\* 0x30, 0x50, 0x60, 0x61, 0x80, 0x82 each followed by parameter bytes, then
\* POWER_ON (0x04) and a final wait-idle; no command is sent before the
\* first wait-idle has returned.
C2_InitOrder ==
  op = "Init" =>
    LET sig == SignificantLog
        f == Frames
    IN  /\ IsPrefix(sig, InitOrder)
        /\ (Returned => sig = InitOrder)
        /\ \A k \in 1..Len(f) :
             /\ k = 1 => f[k][1] = "cmd"
             /\ (f[k][1] = "cmd" /\ f[k][2] # <<POWER_ON>> /\ k < Len(f))
                  => f[k + 1][1] = "data"
             /\ f[k] = <<"cmd", <<POWER_ON>>>> => k = Len(f)
        /\ (\E k \in 1..Len(log) : IsTx(log[k])) =>
             \E j \in 1..Len(log) :
               /\ log[j].t = "idle"
               /\ \A k \in 1..(j - 1) : ~IsTx(log[k])

\* Init has returned, called again after a Sleep
C2_Witness == op = "Init" /\ prevOp = "Sleep" /\ Returned /\ Len(log) > 0

Accepted(i) ==
  \/ i.dx = EPD_WIDTH /\ i.dy = EPD_HEIGHT
  \/ i.dx = EPD_HEIGHT /\ i.dy = EPD_WIDTH

\* getBuffer has returned in the Display in progress
Encoded == op = "Display" /\ \E k \in 1..Len(log) : log[k].t = "encode"

\* C3: when the encoding of the bitmap fails (dimensions neither the
\* panel's nor their transpose), Display attempts no hardware write: no
\* command or data byte is sent and no control line is written.
C3_NoWriteOnEncodeFailure ==
  (op = "Display" /\ ~Accepted(img)) =>
    \A k \in 1..Len(log) : log[k].t \notin {"dc", "cs", "rst", "cmd", "data"}

DisplayFrames(b) ==
  <<<<"cmd", <<DATA_START_TRANSMISSION_1>>>>>> \o
  [k \in 1..Len(b) |-> <<"data", <<b[k]>>>>] \o
  <<<<"cmd", <<POWER_ON>>>>,
    <<"cmd", <<DISPLAY_REFRESH>>>>, <<"data", <<0>>>>,
    <<"cmd", <<POWER_OFF>>>>, <<"data", <<0>>>>>>

InWait == Running /\ Head(prog).i = "wait" /\ wpc = "select"

\* C5: when the busy line never reads idle, waitUntilIdle does not hang: it
\* ends by the timeout panic, which happens only once the 30 s have
\* elapsed, and it does not return normally.
C5_TimeoutEndsWait ==
  /\ []((InWait /\ [](busy = "Low")) => <>panicked)
  /\ [][(InWait /\ ~panicked' /\ prog' # prog) => busy # "Low"]_vars
  /\ [][(~panicked /\ panicked') => (InWait /\ elapsed >= TimeoutMs)]_vars
  /\ [](elapsed <= TimeoutMs)

\* a wait has ended in the timeout panic
C5_Witness == panicked /\ elapsed >= TimeoutMs /\ busy = "Low"

\* C6: when a wait-idle inside Init, Clear or Display times out, the method
\* is aborted: nothing is written to a line or sent on the bus after it.
C6_TimeoutAborts ==
  /\ \A k \in 1..Len(log) :
       log[k].t = "timeout" =>
         k = Len(log) /\ panicked /\ op \in {"Init", "Clear", "Display"}
  /\ panicked => (log # <<>> /\ Last(log).t = "timeout" /\ prog # <<>>)

\* a wait-idle of Display has timed out after the buffer was streamed
C6_Witness == panicked /\ op = "Display" /\ Len(log) > 8

\* C7: waitUntilIdle returns normally only directly after a poll that read
\* the busy line high, and on the first such poll; between two polls it
\* sleeps one poll interval (100 ms); it writes no line and sends nothing.
C7_WaitPolls ==
  [][(Running /\ Head(prog).i = "wait") =>
       /\ lines' = lines
       /\ log' # log => (log' = Append(log, Last(log')) /\ Last(log').t \in {"idle", "timeout"})
       /\ prog' # prog =>
            /\ wpc = "select" /\ busy = "High" /\ elapsed < TimeoutMs
            /\ prog' = Tail(prog) /\ Last(log').t = "idle"
       /\ (wpc = "select" /\ busy = "High" /\ elapsed < TimeoutMs /\ busy' = busy) =>
            (prog' = Tail(prog) /\ wpc' = "idle")
       /\ (wpc = "select" /\ wpc' = "select" /\ elapsed' # elapsed) =>
            (busy = "Low" /\ elapsed' = elapsed + PollMs /\ log' = log)
       /\ (wpc = "select" /\ busy = "Low" /\ elapsed < TimeoutMs /\ busy' = busy) =>
            (prog' = prog /\ elapsed' = elapsed + PollMs)]_vars

\* a poll is about to read the line idle after two polls that read it busy
C7_Witness == InWait /\ busy = "High" /\ elapsed >= 2 * PollMs /\ elapsed < TimeoutMs

Direct(i) == i.dx = EPD_WIDTH /\ i.dy = EPD_HEIGHT

Transposed(i) == i.dx = EPD_HEIGHT /\ i.dy = EPD_WIDTH

\* getBuffer has just returned in Display
JustEncoded == op = "Display" /\ log # <<>> /\ Last(log).t = "encode"

\* C8: for every bitmap of accepted dimensions the buffer returned by
\* getBuffer has exactly width * height / 2 bytes.
C8_BufferLength ==
  (Encoded /\ Accepted(img)) =>
    /\ buf.ok
    /\ Len(buf.bytes) = (EPD_WIDTH * EPD_HEIGHT) \div 2
    /\ 2 * Len(buf.bytes) = img.dx * img.dy

\* the buffer of a bitmap of transposed size has been produced
C8_Witness == Encoded /\ Transposed(img) /\ buf.ok /\ Len(buf.bytes) > 0

PreRotated(B) ==
  [minX |-> 0, minY |-> 0, dx |-> B.dy, dy |-> B.dx,
   pix |-> [k \in 1..(B.dx * B.dy) |->
              At(B, (k - 1) \div B.dy, B.dy - 1 - ((k - 1) % B.dy))]]

\* C10: for every bitmap B of transposed size, getBuffer(B) equals
\* getBuffer(B') for the bitmap B' of panel size that holds the content of
\* B rotated 90 degrees clockwise.
C10_RotateThenEncode ==
  (JustEncoded /\ Transposed(img) /\ img.minX = 0 /\ img.minY = 0) =>
    buf = getBuffer(PreRotated(img))

\* the bitmap that getBuffer quantizes for the accepted bitmap i
imageTemp(i) == IF Direct(i) THEN i ELSE rotateImage90(i)

\* image7Color.Pix in getBuffer for the accepted bitmap i
image7Color(i) == quantizeImage(imageTemp(i), ColorPalette).pix

\* C11 as stated: for every byte of the buffer produced by getBuffer, the
\* high and the low nibble are the palette indices of the two pixels packed
\* into that byte.
C11_NibblesAreIndices ==
  (JustEncoded /\ buf.ok) =>
    LET ix == image7Color(img)
    IN  \A k \in 1..Len(buf.bytes) :
          /\ buf.bytes[k] \div 16 = ix[2 * k - 1]
          /\ buf.bytes[k] % 16 = ix[2 * k]

\* the palette index that has the nibble code n
CodeIndex(n) ==
  CHOOSE i \in 0..(Len(ColorPaletteBinary) - 1) : ColorPaletteBinary[i + 1] = n

\* C11, amended: the nibbles of every byte are the panel codes
\* ColorPaletteBinary[first_index], ColorPaletteBinary[second_index] of the
\* two pixels packed into it; the code equals the index for the indices
\* 0..3 and is 5, 6 for blue (4) and green (5); no two indices share a
\* code, so looking the nibbles up in the code table reproduces the index
\* pair of every byte.
C11_NibblesAreCodes ==
  (JustEncoded /\ buf.ok) =>
    LET ix == image7Color(img)
    IN  /\ 2 * Len(buf.bytes) = Len(ix)
        /\ \A k \in 1..Len(buf.bytes) :
             LET hi == buf.bytes[k] \div 16
                 lo == buf.bytes[k] % 16
                 first == ix[2 * k - 1]
                 second == ix[2 * k]
             IN  /\ hi = ColorPaletteBinary[first + 1]
                 /\ lo = ColorPaletteBinary[second + 1]
                 /\ hi = (IF first <= 3 THEN first ELSE first + 1)
                 /\ lo = (IF second <= 3 THEN second ELSE second + 1)
                 /\ CodeIndex(hi) = first
                 /\ CodeIndex(lo) = second

\* a blue and a green pixel have been packed into one byte, 0x56
C11_Witness == JustEncoded /\ buf.ok /\ \E k \in 1..Len(buf.bytes) : buf.bytes[k] = 86

\* the panel code of the pixel with the row-major number n (from 0) of the
\* bitmap t
PixelCode(t, n) ==
  ColorPaletteBinary[
    PaletteIndex(ColorPalette, At(t, t.minX + (n % t.dx), t.minY + (n \div t.dx))) + 1]

\* C12: byte k of the buffer (from 0) holds the pixel 2k of the bitmap in
\* row-major order in its high nibble and the pixel 2k + 1 in its low
\* nibble; when the first four pixels have the palette indices 0, 1, 2, 3
\* the first two bytes are 0x01, 0x23.
C12_PackingOrder ==
  (JustEncoded /\ buf.ok) =>
    LET t == imageTemp(img)
    IN  /\ \A k \in 0..(Len(buf.bytes) - 1) :
             buf.bytes[k + 1] = 16 * PixelCode(t, 2 * k) + PixelCode(t, 2 * k + 1)
        /\ (\A n \in 0..3 : PaletteIndex(ColorPalette, At(t, t.minX + n, t.minY)) = n)
             => SubSeq(buf.bytes, 1, 2) = <<1, 35>>

\* the bitmap that starts black, white, yellow, red has been encoded
C12_Witness ==
  /\ JustEncoded /\ buf.ok
  /\ SubSeq(img.pix, 1, 4) = <<ColorBlack, ColorWhite, ColorYellow, ColorRed>>

\* C13: every pixel whose colour is exactly a palette colour gets the index
\* of that palette entry.
C13_ExactColors ==
  (JustEncoded /\ buf.ok) =>
    LET t == imageTemp(img)
        ix == image7Color(img)
    IN  \A n \in 1..Len(t.pix) : \A i \in 1..Len(ColorPalette) :
          t.pix[n] = ColorPalette[i] =>
            (ix[n] = i - 1 /\ ColorPalette[ix[n] + 1] = t.pix[n])

\* a bitmap in which every palette colour occurs has been quantized
C13_Witness ==
  /\ JustEncoded /\ buf.ok
  /\ \A i \in 1..Len(ColorPalette) : \E n \in 1..Len(img.pix) : img.pix[n] = ColorPalette[i]

\* the codes of the panel by the colour they are documented for
NamedCodes ==
  { <<ColorBlack, 0>>, <<ColorWhite, 1>>, <<ColorYellow, 2>>, <<ColorRed, 3>>,
    <<ColorBlue, 5>>, <<ColorGreen, 6>> }

Square(d) ==
  LET a == d \div 256
      b == d % 256
      m == 2 * a * b * 256 + b * b
  IN  <<a * a + (m \div 65536), m % 65536>>

\* the squared Euclidean distance of the colours c and p over their four
\* 16-bit channels, as <<high part, low 16 bits>>
Distance(c, p) ==
  LET sq == [k \in 1..4 |-> Square(IF c[k] >= p[k] THEN c[k] - p[k] ELSE p[k] - c[k])]
      lo == sq[1][2] + sq[2][2] + sq[3][2] + sq[4][2]
  IN  <<sq[1][1] + sq[2][1] + sq[3][1] + sq[4][1] + (lo \div 65536), lo % 65536>>

Nearer(a, b) == a[1] < b[1] \/ (a[1] = b[1] /\ a[2] < b[2])

C17_ResolutionBytes ==
  /\ TconResolutionData(PanelWidth, PanelHeight)
       = <<Data(<<3>>), Data(<<32>>), Data(<<1>>), Data(<<224>>)>>
  /\ 256 * 3 + 32 = PanelWidth /\ 256 * 1 + 224 = PanelHeight
  /\ op = "Init" =>
       LET f == Frames
       IN  \A k \in 1..Len(f) :
             f[k] = <<"cmd", <<TCON_RESOLUTION>>>> =>
               /\ \A j \in 1..4 :
                    k + j <= Len(f) =>
                      /\ f[k + j][1] = "data"
                      /\ Len(f[k + j][2]) = 1
                      /\ f[k + j][2][1] \in 0..255
               /\ k + 2 <= Len(f) => 256 * f[k + 1][2][1] + f[k + 2][2][1] = EPD_WIDTH
               /\ k + 4 <= Len(f) => 256 * f[k + 3][2][1] + f[k + 4][2][1] = EPD_HEIGHT
               /\ k + 5 <= Len(f) => f[k + 5][1] = "cmd"
               /\ Returned => k + 5 <= Len(f)

\* Init has returned after it has sent TCON_RESOLUTION and its four bytes
C17_Witness ==
  /\ op = "Init" /\ Returned
  /\ \E k \in 1..Len(Frames) :
       /\ Frames[k] = <<"cmd", <<TCON_RESOLUTION>>>>
       /\ Frames[k + 2] = <<"data", <<EPD_WIDTH % 256>>>>
       /\ Frames[k + 4] = <<"data", <<EPD_HEIGHT % 256>>>>

\* the command c has been transferred in the method in progress
SentCommand(c) == \E k \in 1..Len(log) : log[k].t = "cmd" /\ log[k].b = <<c>>

InitCommands ==
  << <<170, <<73, 85, 32, 8, 9, 24>>>>,
     <<1, <<63>>>>,
     <<0, <<95, 105>>>>,
     <<3, <<0, 84, 0, 68>>>>,
     <<5, <<64, 31, 31, 44>>>>,
     <<6, <<111, 31, 23, 73>>>>,
     <<7, <<111, 31, 31, 34>>>>,
     <<48, <<3>>>>,
     <<80, <<63>>>>,
     <<96, <<2, 0>>>>,
     <<97, <<EPD_WIDTH \div 256, EPD_WIDTH % 256, EPD_HEIGHT \div 256, EPD_HEIGHT % 256>>>>,
     <<128, <<1>>>>,
     <<130, <<47>>>>,
     <<4, <<>>>> >>

\* the frames of the commands cs: each command, then one data frame for
\* each of its parameter bytes
RECURSIVE FramesOf(_)
FramesOf(cmds) ==
  IF cmds = <<>> THEN <<>>
  ELSE <<<<"cmd", <<Head(cmds)[1]>>>>>> \o
       [k \in 1..Len(Head(cmds)[2]) |-> <<"data", <<Head(cmds)[2][k]>>>>] \o
       FramesOf(Tail(cmds))

\* the levels written to the reset line in log
ResetWrites ==
  LET r == SelectSeq(log, LAMBDA e : e.t = "rst")
  IN  [k \in 1..Len(r) |-> r[k].lvl]

\* C19: whatever was called before (New, or Init and then Sleep), an Init
\* that is not cut short by the busy timeout runs to its end, puts the same
\* sequence on the reset line (high, low, high) and then on the bus (the
\* fourteen commands with their parameters), leaves the lines in the same
\* state, and any method may be called after it.
C19_InitAgain ==
  /\ (op = "Init" /\ Running) => ENABLED Step
  /\ (op = "Init" /\ panicked) => Last(log).t = "timeout"
  /\ (op = "Init" /\ Returned) =>
       /\ ResetWrites = <<"High", "Low", "High">>
       /\ \A k \in 1..3 : ~IsTx(log[k])
       /\ \A k \in 1..Len(log) : (log[k].t = "rst") => \A j \in 1..k : ~IsTx(log[j])
       /\ Frames = FramesOf(InitCommands)
       /\ dc = "Low" /\ cs = "High" /\ rst = "High"
       /\ ENABLED CallClear /\ ENABLED CallDisplay /\ ENABLED CallSleep

\* a second Init, called after Sleep on a handle that an earlier Init had
\* configured, has sent its reset pulse and its first command
C19_Witness ==
  /\ op = "Init" /\ prevOp = "Sleep" /\ resolutionSet
  /\ ResetWrites = <<"High", "Low", "High">>
  /\ Frames = <<<<"cmd", <<170>>>>>>

\* C20: Clear sends the command 0x10, then heightByte * widthByte * 4 data
\* bytes 0x11, which is width * height / 2 bytes (192000 for the panel of
\* 800 x 480 pixels), then power-on, refresh and power-off with a wait-idle
\* after each.
C20_ClearFiller ==
  /\ WidthByteOf(PanelWidth) = 100
  /\ PanelHeight * WidthByteOf(PanelWidth) * 4 = 192000
  /\ 2 * 192000 = PanelWidth * PanelHeight
  /\ 2 * (heightByte * widthByte * 4) = EPD_WIDTH * EPD_HEIGHT
  /\ op = "Clear" =>
       LET f == Frames
           want == DisplayFrames([k \in 1..(heightByte * widthByte * 4) |-> 17])
       IN  /\ IsPrefix(f, want)
           /\ Returned =>
                /\ f = want
                /\ Len(SelectSeq(f, LAMBDA x : x = <<"data", <<17>>>>))
                     = (EPD_WIDTH * EPD_HEIGHT) \div 2
                /\ SignificantLog
                     = <<"cmd:16", "cmd:4", "idle", "cmd:18", "idle", "cmd:2", "idle">>

\* Clear has returned after the filler and the refresh
C20_Witness ==
  op = "Clear" /\ Returned /\ Len(Frames) > heightByte * widthByte * 4

\* the transfers and the returns of wait-idle in log, as <<kind, bytes>>
WaitLog ==
  LET w == SelectSeq(log, LAMBDA e : e.t \in {"cmd", "data", "idle"})
  IN  [k \in 1..Len(w) |-> <<w[k].t, w[k].b>>]

RefreshTrace ==
  << <<"cmd", <<4>>>>, <<"idle", <<>>>>,
     <<"cmd", <<18>>>>, <<"data", <<0>>>>, <<"idle", <<>>>>,
     <<"cmd", <<2>>>>, <<"data", <<0>>>>, <<"idle", <<>>>> >>

\* C21: what Clear and Display (of an accepted bitmap) do after the command
\* 0x10 and the width * height / 2 streamed bytes is exactly: command 0x04,
\* wait-idle, command 0x12 with data 0x00, wait-idle, command 0x02 with
\* data 0x00, wait-idle; the frame of 0x12 and of 0x02 starts right after
\* the return of the wait-idle before it.
C21_RefreshSequence ==
  (op = "Clear" \/ (op = "Display" /\ Encoded /\ buf.ok)) =>
    LET w == WaitLog
        n == ((EPD_WIDTH * EPD_HEIGHT) \div 2) + 1
        rest == IF Len(w) > n THEN SubSeq(w, n + 1, Len(w)) ELSE <<>>
    IN  /\ IsPrefix(rest, RefreshTrace)
        /\ Returned => rest = RefreshTrace
        /\ \A k \in 1..Len(log) :
             (log[k].t = "cmd" /\ log[k].b[1] \in {DISPLAY_REFRESH, POWER_OFF}) =>
               (k > 3 /\ log[k - 3].t = "idle" /\ log[k - 2].t = "dc" /\ log[k - 1].t = "cs")

\* Display of an accepted bitmap has returned on a handle that Clear had
\* refreshed before
C21_Witness == op = "Display" /\ prevOp = "Clear" /\ Returned /\ buf.ok

\* C22: for an accepted bitmap Display sends the command 0x10, then one
\* data frame for each byte of the buffer that getBuffer returned, in the
\* order of the buffer (width * height / 2 frames, nothing in between),
\* then the power-on / refresh / power-off frames.
C22_DisplayStreamsBuffer ==
  /\ JustEncoded => buf = getBuffer(img)
  /\ (op = "Display" /\ ~Encoded) => IsPrefix(Frames, <<<<"cmd", <<16>>>>>>)
  /\ (op = "Display" /\ Accepted(img) /\ Encoded) =>
       LET f == Frames
           n == (EPD_WIDTH * EPD_HEIGHT) \div 2
       IN  /\ buf.ok /\ Len(buf.bytes) = n
           /\ f[1] = <<"cmd", <<16>>>>
           /\ \A k \in 1..n : k + 1 <= Len(f) => f[k + 1] = <<"data", <<buf.bytes[k]>>>>
           /\ IsPrefix(SubSeq(f, n + 2, Len(f)),
                       << <<"cmd", <<4>>>>, <<"cmd", <<18>>>>, <<"data", <<0>>>>,
                          <<"cmd", <<2>>>>, <<"data", <<0>>>> >>)
           /\ Returned => Len(f) = n + 6

\* Display of a bitmap of panel size has returned after Init
C22_Witness ==
  /\ op = "Display" /\ prevOp = "Init" /\ Returned /\ Direct(img)
  /\ Len(Frames) = ((EPD_WIDTH * EPD_HEIGHT) \div 2) + 6

\* C23: Sleep sends one command frame 0x07 and then one data frame with the
\* byte 0xA5, and does nothing else: no write to the reset line, no
\* wait-idle, no delay, no other frame.
C23_SleepFrames ==
  op = "Sleep" =>
    /\ \A k \in 1..Len(log) : log[k].t \in {"dc", "cs", "cmd", "data"}
    /\ IsPrefix(Frames, << <<"cmd", <<7>>>>, <<"data", <<165>>>> >>)
    /\ Returned => (Frames = << <<"cmd", <<7>>>>, <<"data", <<165>>>> >> /\ Len(log) = 8)

\* Sleep has returned after a Display
C23_Witness == op = "Sleep" /\ prevOp = "Display" /\ Returned /\ Len(Frames) = 2

\* C24: Reset writes high, low, high to the reset line and leaves it high;
\* it transfers nothing and leaves the data/command and the chip-select
\* line as they were; no configuration reaches the panel through it: on a
\* handle that was never initialized the resolution registers are still
\* unwritten after Reset.
C24_ResetOnlyResetLine ==
  /\ [](op = "Reset" =>
          /\ \A k \in 1..Len(log) : log[k].t \in {"rst", "sleep"}
          /\ IsPrefix(ResetWrites, <<"High", "Low", "High">>)
          /\ Returned => (ResetWrites = <<"High", "Low", "High">> /\ rst = "High")
          /\ prevOp = "New" => ~resolutionSet)
  /\ [][op' = "Reset" =>
          (dc' = dc /\ cs' = cs /\ fpc' = fpc /\ resolutionSet' = resolutionSet)]_vars

\* Reset has returned on a handle on which Sleep had left the data/command
\* line high
C24_Witness ==
  op = "Reset" /\ prevOp = "Sleep" /\ Returned /\ dc = "High" /\ cs = "High" /\ rst = "High"

C26_ChipSelectIdleHigh == fpc = 0 => cs = "High"

\* C27: a transfer that fails inside sendCommand or sendData ends the
\* enclosing method: Init, Clear, Display and Sleep transfer no frame after
\* the failed transfer.
C27_TransportFailureFatal ==
  \A j \in 1..Len(log) :
    log[j].t = "txerr" => \A k \in (j + 1)..Len(log) : ~IsTx(log[k])

\* C28: when a step of New has failed, New has returned no handle, and every
\* line and the port it had acquired before the failure have been released.
C28_NewReleasesOnFailure == npc = "err" => (op = "main" /\ held = {})

\* the calls of main, as pairs <<method before, method called>>
MainOrder ==
  { <<"main", "New">>, <<"New", "Init">>, <<"Init", "Clear">>,
    <<"Clear", "Display">>, <<"Display", "Sleep">> }

\* a step that starts a method of the handle, or ends New with a handle
StartsCall == op' # op \/ (prog = <<>> /\ prog' # <<>>)

\* what the driver does to the lines and the bus
BusActivity == <<dc, cs, rst, log, prog, op>>

\* C30: main calls New, Init, Clear, Display and Sleep in this order, each
\* at most once and each only when the call before it has returned; until
\* GenerateDashboard and SavePNG have succeeded nothing of the driver runs,
\* and a run in which one of them fails ends without a driver call; after
\* Sleep has returned nothing happens on the lines or the bus any more.
C30_MainCallOrder ==
  /\ [][StartsCall =>
          /\ <<op, op'>> \in MainOrder
          /\ prog = <<>> /\ fpc = 0 /\ wpc = "idle" /\ ~panicked]_vars
  /\ [][(mpc = "GenerateDashboard" \/ mpc = "SavePNG") =>
          /\ UNCHANGED BusActivity
          /\ held' = {} /\ npc' = "host.Init"]_vars
  /\ []((mpc = "exit" /\ npc = "host.Init") => (op = "main" /\ log = <<>> /\ held = {}))
  /\ [][(op = "Sleep" /\ prog = <<>>) => UNCHANGED BusActivity]_vars

\* main has returned after New, Init, Clear, Display and Sleep
C30_Witness ==
  /\ mpc = "exit" /\ npc = "ok"
  /\ op = "Sleep" /\ prevOp = "Display" /\ Returned
  /\ Frames = <<<<"cmd", <<DEEP_SLEEP>>>>, <<"data", <<165>>>>>>

\* a transfer whose framing is broken: the byte went out while chip-select
\* was high, or with the data/command level of the other kind of frame
Corrupted(e) ==
  /\ IsTx(e)
  /\ \/ e.cs = "High"
     \/ e.dc # (IF e.t = "cmd" THEN "Low" ELSE "High")

\* C29: with two callers on one handle, a transfer with broken framing
\* happens only when the two callers have been inside a frame at the same
\* time; as long as their frames are serialized every transfer is framed
\* correctly.
C29_SerializedFraming == (\E k \in 1..Len(log) : Corrupted(log[k])) => overlap

\* an interleaving of the two callers in which a byte is transferred with
\* the other caller's data/command level, and one in which a byte is
\* transferred while chip-select is high
C29_Witness ==
  /\ \E k \in 1..Len(log) : IsTx(log[k]) /\ log[k].cs = "High"
  /\ \E k \in 1..Len(log) :
       /\ IsTx(log[k]) /\ log[k].cs = "Low"
       /\ log[k].dc # (IF log[k].t = "cmd" THEN "Low" ELSE "High")

\* the number of attempts fetchQuoteRetry(n) may make
Attempts(n) == IF n > 0 THEN n ELSE 0

\* what holds of fetchQuoteRetry at every moment, and of its result
QuoteRunOk ==
  LET r == quoteRun
      made == Len(r.fetched)
  IN  /\ made <= Attempts(r.maxRetries)
      /\ \A k \in 1..(made - 1) : r.fetched[k].err # "nil"
      /\ (r.pc # "returned" /\ made > 0) => r.fetched[made].err # "nil"
      /\ r.pc = "returned" =>
           \/ /\ r.ret.err = "nil"
              /\ made > 0 /\ r.fetched[made].err = "nil"
              /\ r.ret.q = r.fetched[made].q
           \/ /\ r.ret.err # "nil" /\ r.ret.q = EmptyQuote
              /\ made = Attempts(r.maxRetries)
              /\ \A k \in 1..made : r.fetched[k].err # "nil"
      /\ (r.pc = "returned" /\ r.maxRetries <= 0) => (made = 0 /\ r.ret.err # "nil")

TwoHourGrid == {6, 8, 10, 12, 14, 16, 18, 20, 22}

\* HourlyWeatherFrom has returned without an error
HourlyReturned == weather.pc \in {"renderForecast", "column", "returned"}

\* C32: every key of the result of HourlyWeatherFrom is a time that is not
\* before now and whose local hour is on the two-hour grid from 06:00 until
\* midnight.
C32_TwoHourGrid ==
  HourlyReturned =>
    \A t \in DOMAIN weather.result :
      /\ t >= weather.now
      /\ LocalHour(t, weather.offset) \in TwoHourGrid

\* C33: renderForecast draws at most 6 columns; they show the earliest times
\* of the hourly map, in ascending order of time from left to right.
C33_SixColumns ==
  LET cols == weather.columns
      keys == DOMAIN weather.result
  IN  (weather.pc \in {"column", "returned"}) =>
        /\ Len(cols) <= 6
        /\ \A k \in 1..Len(cols) :
             /\ cols[k].t \in keys
             /\ \A u \in keys : u < cols[k].t => \E j \in 1..(k - 1) : cols[j].t = u
        /\ \A j, k \in 1..Len(cols) : j < k => (cols[j].t < cols[k].t /\ cols[j].x < cols[k].x)

\* C39: no weather code is in more than one group of weatherIcons and every
\* code of weatherConditions is in one; whenever Weather.Icon has been called
\* twice with the same code it has returned the same path; for a nil code
\* it has returned the empty path, and renderForecast has then returned an
\* error; for a code of no group it has returned the unknown icon.
C39_IconDeterministic ==
  /\ \A code \in 0..99 : Cardinality(IconGroups(code)) <= 1
  /\ \A code \in weatherConditions : IconGroups(code) # {}
  /\ \A a, b \in icons : a[1] = b[1] => a[2] = b[2]
  /\ \A a \in icons :
       /\ a[1] = <<>> <=> a[2] = <<>>
       /\ (a[1] # <<>> /\ a[1][1] \notin weatherConditions) => a[2][2] = "unknown"
       /\ (a[1] # <<>> /\ a[1][1] \in weatherConditions) => a[2][2] \in DOMAIN weatherIcons
  /\ (\E a \in icons : a[2] = <<>>) <=>
       (weather # Idle /\ weather.rerr = "icon path is empty")

\* renderForecast has drawn the code 1 twice with the same icon and a code
\* of no group with the unknown icon, and has stopped at a nil code
C39_Witness ==
  /\ weather.pc = "returned" /\ weather.rerr = "icon path is empty"
  /\ Len(weather.columns) = 3
  /\ weather.columns[1].icon = weather.columns[3].icon
  /\ icons = { <<<<1>>, <<"icons/weather/", "sunny-cloudy", ".png">>>>,
               <<<<4>>, <<"icons/weather/", "unknown", ".png">>>>,
               <<<<>>, <<>>>> }

\* a step that is a call of Fetch on the calendar number c
FetchStep(c) ==
  /\ calendars'.last # calendars.last
  /\ calendars'.last.call = "Fetch" /\ calendars'.last.c = c

\* C36: once a calendar has been fetched, no call (of Fetch, or of
\* FutureEvents or buildAppointments, which call it) contacts its URL or
\* changes its Events or fetched, and Fetch returns nil; a calendar is
\* downloaded successfully at most once; a Fetch on a calendar that has not
\* been fetched contacts the URL, and when it fails it leaves fetched false
\* and Events as they were.
C36_FetchOnce ==
  /\ [][\A c \in 1..NumCalendars :
          /\ calendars.cals[c].fetched =>
               /\ calendars'.cals[c] = calendars.cals[c]
               /\ calendars'.downloaded[c] = calendars.downloaded[c]
               /\ calendars'.last # calendars.last => c \notin calendars'.last.contacted
               /\ FetchStep(c) => calendars'.last.err = "nil"
          /\ (~calendars.cals[c].fetched /\ FetchStep(c)) =>
               /\ c \in calendars'.last.contacted
               /\ calendars'.last.err # "nil" => calendars'.cals[c] = calendars.cals[c]
               /\ calendars'.last.err = "nil" => calendars'.cals[c].fetched]_vars
  /\ [](\A c \in 1..NumCalendars :
          /\ calendars.downloaded[c] <= 1
          /\ calendars.cals[c].fetched <=> calendars.downloaded[c] = 1)

\* a calendar has been downloaded, and a later Fetch on it has returned nil
\* without contacting the URL
C36_Witness ==
  /\ calendars.cals[1].fetched /\ calendars.cals[1].Events # <<>>
  /\ calendars.downloaded[1] = 1
  /\ calendars.last.call = "Fetch" /\ calendars.last.c = 1
  /\ calendars.last.contacted = {} /\ calendars.last.err = "nil"

\* the events of the calendar that the last call of FutureEvents had to
\* return, as positions in Events: the start can be read and is neither
\* before time.Now() at its test nor after until
DueEvents ==
  LET l == calendars.last
      events == calendars.cals[l.c].Events
  IN  {k \in 1..Len(events) :
         /\ events[k].start # <<>>
         /\ events[k].start[1] >= l.readings[k]
         /\ events[k].start[1] <= l.until}

Built == calendars.last.call = "buildAppointments"

\* the appointment that buildAppointments makes of an event of MergedEvents
AppointmentOf(e) ==
  [Title |-> e.VEvent.uid, Start |-> e.VEvent.start[1], Tag |-> e.Tag, Color |-> e.Color]

\* the events of all calendars that were upcoming in the last call of
\* buildAppointments: the start can be read and is neither before
\* time.Now() at its test nor after until
Upcoming ==
  LET l == calendars.last
      before(c) == IF c = 1 THEN 0 ELSE Len(calendars.cals[1].Events)
  IN  UNION { { [VEvent |-> calendars.cals[c].Events[k], Tag |-> calendars.cals[c].Name,
                 Color |-> calendars.cals[c].Color] :
                k \in {j \in 1..Len(calendars.cals[c].Events) :
                         /\ calendars.cals[c].Events[j].start # <<>>
                         /\ calendars.cals[c].Events[j].start[1] >= l.readings[before(c) + j]
                         /\ calendars.cals[c].Events[j].start[1] <= l.until} } :
              c \in 1..NumCalendars }

\* at most calendarEventCount appointments, the earliest upcoming events of
\* all calendars, in nondecreasing order of start
EarliestUpcoming ==
  LET a == calendars.last.appointments
      up == Upcoming
  IN  /\ Len(a) <= calendarEventCount
      /\ Len(a) = (IF Cardinality(up) < calendarEventCount
                   THEN Cardinality(up) ELSE calendarEventCount)
      /\ \A j \in 1..Len(a) : \E e \in up : a[j] = AppointmentOf(e)
      /\ \A j, k \in 1..Len(a) : j < k => (a[j].Start <= a[k].Start /\ a[j] # a[k])
      /\ \A e \in up :
           (\A j \in 1..Len(a) : a[j] # AppointmentOf(e)) =>
             \A j \in 1..Len(a) : a[j].Start <= e.VEvent.start[1]

\* a calendar could not be fetched in the last call
SomeNotFetched == \E c \in 1..NumCalendars : ~calendars.cals[c].fetched

\* a fetched calendar has an event whose start cannot be read
SomeUnreadable ==
  \E c \in 1..NumCalendars :
    \E k \in 1..Len(calendars.cals[c].Events) : calendars.cals[c].Events[k].start = <<>>

DayOf(t) == t \div (MinutesPerHour * HoursPerDay)

\* C37: relativeDate returns just the time when the date is today, "Morgen"
\* and the time when the date is tomorrow, and otherwise the German name of
\* the weekday and the time.
C37_TodayTomorrowWeekday ==
  (dateRun.pc = "returned") =>
    LET t == dateRun.t
        now == dateRun.now
    IN  /\ dateRun.ret.time = <<Hour(t), Minute(t)>>
        /\ dateRun.ret.day =
             IF DayOf(t) = DayOf(now) THEN ""
             ELSE IF DayOf(t) = DayOf(now) + 1 THEN "Morgen"
             ELSE days[Weekday(t) + 1]

\* C38: for every source bitmap, whatever its Min point, rotateImage90
\* returns a bitmap of the transposed size in which the pixel in column i,
\* row j of the source is the pixel in column H - 1 - j, row i (H the height
\* of the source), so that every pixel of the result comes from the source.
C38_RotateAnyBounds ==
  (rotation.pc = "returned") =>
    LET src == rotation.img
        dst == rotation.dst
    IN  /\ dst.minX = 0 /\ dst.minY = 0
        /\ dst.dx = src.dy /\ dst.dy = src.dx
        /\ \A i \in 0..(src.dx - 1), j \in 0..(src.dy - 1) :
             At(dst, src.dy - 1 - j, i) = RGBAModelConvert(At(src, src.minX + i, src.minY + j))

============================================================================
